---- MODULE Spec2Model ----
(***************************************************************************)
(* Incremental ingestion engine of the subgraph pipeline: one cycle reads  *)
(* the resume cursor, plans and runs one fetch, transforms the page,       *)
(* upserts the dependent entities in one session and loads the event rows  *)
(* in another session (PostgreSQL: INSERT .. ON CONFLICT, one transaction  *)
(* per session).                                                           *)
(*                                                                         *)
(* Conventions.  A Python None / SQL NULL is the empty set and a present   *)
(* value v is the singleton {v}.  A table is a function whose DOMAIN is    *)
(* the set of stored ids.                                                  *)
(***************************************************************************)
EXTENDS Integers, Sequences, FiniteSets, TLC

VARIABLES
    config,        \* the descriptor the asset factory was called with
    sink,          \* the schema of the descriptor's event table
    source,        \* the append-only stream published by the subgraph
    now,           \* wall clock read by datetime.now
    events,        \* the descriptor's event table (committed state)
    entities,      \* the lookup tables, one per entity type (committed state)
    pc,            \* position of the cycle in the asset graph
    last_cursor,   \* value get_last_cursor returned to this cycle
    last_block,    \* value get_last_processed_block returned to _extract_event
    query,         \* the request build_query produced for this cycle
    extract_output,\* None ({}) or {page}
    transform_output, \* None ({}) or {df}
    session,       \* the entity-resolution session of this cycle
    entity_stats,  \* result of the entity-resolution step
    result,        \* the report returned by the load step
    sessions       \* sessions other cycles hold open on the shared lookup tables

vars == <<config, sink, source, now, events, entities, pc, last_cursor,
          last_block, query, extract_output, transform_output, session,
          entity_stats, result, sessions>>

----------------------------------------------------------------------------
(* Bounds of the model *)

MaxSource == 3     \* records the subgraph publishes in one behaviour
MaxCycles == 3     \* cycles (clock readings) in one behaviour
PageSize == 2      \* the `first` argument, scaled down

None == {}
Some(v) == {v}
TheValue(o) == CHOOSE v \in o : TRUE

----------------------------------------------------------------------------
(* Descriptor registry *)

OPERATOR_REGISTERED_CONFIG ==
    [ table_name |-> "operator_registered_events",
      has_logIndex |-> FALSE,
      entity_dependencies |-> <<"Operator">>,
      entity_extractors |-> {"Operator"},
      dropna |-> FALSE ]

OPERATOR_AVS_REGISTRATION_STATUS_UPDATED_CONFIG ==
    [ table_name |-> "operator_avs_registration_status_updated_events",
      has_logIndex |-> TRUE,
      entity_dependencies |-> <<"Operator", "AVS">>,
      entity_extractors |-> {"Operator", "AVS"},
      dropna |-> TRUE ]

Descriptors ==
    { OPERATOR_REGISTERED_CONFIG,
      OPERATOR_AVS_REGISTRATION_STATUS_UPDATED_CONFIG }

EntityTypes == {"Operator", "AVS"}

\* the column of the event table that references each entity type, and the
\* field of the source record it is flattened from
ParentField(entity_type) ==
    CASE entity_type = "Operator" -> "operator"
      [] entity_type = "AVS" -> "avs"
      [] entity_type = "OperatorSet" -> "operatorSet"
      [] entity_type = "Strategy" -> "strategy"

\* ForeignKey(..., nullable=False) columns of the event models
ForeignKeys(cfg) ==
    IF cfg.table_name = "operator_registered_events"
    THEN {"Operator"}
    ELSE {"Operator", "AVS"}

----------------------------------------------------------------------------
(* The source: records of the subgraph *)

\* shapes a reference field of a fetched record can have
ObjA == [kind |-> "obj", id |-> Some("0xA")]
ObjB == [kind |-> "obj", id |-> Some("0xB")]
ObjV == [kind |-> "obj", id |-> Some("0xV")]
BareB == [kind |-> "bare", id |-> Some("0xB")]
Null == [kind |-> "null", id |-> None]
NoId == [kind |-> "noid", id |-> None]

\* what a record can look like apart from its position
Variants ==
    { [operator |-> ObjA, blockTimestamp |-> "1700"],
      [operator |-> ObjB, blockTimestamp |-> "1700"],
      [operator |-> BareB, blockTimestamp |-> "1700"],
      [operator |-> Null, blockTimestamp |-> "1700"],
      [operator |-> NoId, blockTimestamp |-> "1700"],
      [operator |-> ObjA, blockTimestamp |-> "n/a"] }

\* the i-th record of the stream sits at this (blockNumber, logIndex)
BlockOf(i) == (i + 1) \div 2
LogOf(i) == (i + 1) % 2

SourceRecord(i, v, cfg) ==
    [ id |-> i,
      blockNumber |-> BlockOf(i),
      logIndex |-> LogOf(i),
      operator |-> v.operator,
      avs |-> IF "AVS" \in ForeignKeys(cfg) THEN ObjV ELSE Null,
      blockTimestamp |-> v.blockTimestamp ]

----------------------------------------------------------------------------
(* QueryPlanner: SubgraphQueryBuilder *)

\* a planner that forgets the log index of the cursor
build_cursor_filter_block_only(cursor) ==
    IF cursor = None
    THEN [or |-> None, blockNumber_gt |-> None]
    ELSE [or |-> None, blockNumber_gt |-> Some(TheValue(cursor).blockNumber)]

\* _build_cursor_filter: {} | {"or": [...]} | {"blockNumber_gt": b}
build_cursor_filter(cursor) ==
    IF cursor = None
    THEN [or |-> None, blockNumber_gt |-> None]
    ELSE LET c == TheValue(cursor) IN
         IF c.logIndex # None
         THEN [or |-> Some([blockNumber_gt |-> c.blockNumber,
                            blockNumber |-> c.blockNumber,
                            logIndex_gt |-> TheValue(c.logIndex)]),
               blockNumber_gt |-> None]
         ELSE [or |-> None, blockNumber_gt |-> Some(c.blockNumber)]

\* a builder that starts a request without cursor at block 1
build_query_from_block(first, order_by, cursor, block_number_gte) ==
    LET cursor_filter == build_cursor_filter(cursor) IN
    [ first |-> first,
      orderBy |-> order_by,
      where |-> [ blockNumber_gte |-> IF cursor = None /\ block_number_gte = None
                                      THEN Some(1)
                                      ELSE block_number_gte,
                  or |-> cursor_filter.or,
                  blockNumber_gt |-> cursor_filter.blockNumber_gt ] ]

\* build_query: the filters dict, the page size and the ordering
build_query(first, order_by, cursor, block_number_gte) ==
    LET cursor_filter == build_cursor_filter(cursor) IN
    [ first |-> first,
      orderBy |-> order_by,
      where |-> [ blockNumber_gte |-> block_number_gte,
                  or |-> cursor_filter.or,
                  blockNumber_gt |-> cursor_filter.blockNumber_gt ] ]

----------------------------------------------------------------------------
(* The subgraph endpoint: how it answers a request *)

\* a `where` object is the conjunction of its keys; `or` is a disjunction of
\* two objects
Matches(where, r) ==
    /\ where.blockNumber_gte # None =>
           r.blockNumber >= TheValue(where.blockNumber_gte)
    /\ where.blockNumber_gt # None =>
           r.blockNumber > TheValue(where.blockNumber_gt)
    /\ where.or # None =>
           LET o == TheValue(where.or) IN
           \/ r.blockNumber > o.blockNumber_gt
           \/ r.blockNumber = o.blockNumber /\ r.logIndex > o.logIndex_gt

Min(a, b) == IF a <= b THEN a ELSE b

\* the answers the endpoint can give: the first `first` matching records in
\* ascending orderBy (blockNumber) order; records of one block come in any
\* order
Pages(q, src) ==
    LET matching == {i \in 1..Len(src) : Matches(q.where, src[i])}
        n == Cardinality(matching)
        orderings ==
            {s \in [1..n -> matching] :
                /\ \A j, k \in 1..n : j # k => s[j] # s[k]
                /\ \A j, k \in 1..n :
                       j < k => src[s[j]].blockNumber <= src[s[k]].blockNumber}
    IN  {[j \in 1..Min(q.first, n) |-> src[s[j]]] : s \in orderings}

----------------------------------------------------------------------------
(* CursorTracker *)

\* order_by(block_number.desc()).limit(1)
get_last_processed_block(table) ==
    IF DOMAIN table = {}
    THEN None
    ELSE Some(CHOOSE b \in {table[i].block_number : i \in DOMAIN table} :
                  \A i \in DOMAIN table : table[i].block_number <= b)

\* the (block_number, log_index) of the last row of the table, or None:
\* for an empty table, and for a table that has no log_index column (the
\* fallback to the block number alone)
get_last_cursor(table, schema) ==
    IF DOMAIN table = {} \/ ~schema.log_index_column
    THEN None
    ELSE LET b == TheValue(get_last_processed_block(table))
             logs == UNION {table[i].log_index :
                               i \in {j \in DOMAIN table :
                                         table[j].block_number = b}}
         IN  Some(<<b, IF logs = {}
                       THEN None
                       ELSE Some(CHOOSE l \in logs : \A m \in logs : m <= l)>>)

----------------------------------------------------------------------------
(* RecordTransformer *)

IsDict(x) == x.kind \in {"obj", "noid"}

\* a projection that takes a value that is not a dict for the sub-value
flatten_nested_fields_bare(x) == x.id

\* x.get(sub_field) if isinstance(x, dict) else None, for sub_field "id"
flatten_nested_fields(x) == IF IsDict(x) THEN x.id ELSE None

\* the branch of prepare_raw_data without original_data: raw_data is built
\* from the row of the frame, after flattening and renaming
transform_record_from_frame(r, cfg, clock) ==
    [ id |-> r.id,
      block_number |-> r.blockNumber,
      log_index |-> IF cfg.has_logIndex THEN Some(r.logIndex) ELSE None,
      block_timestamp |-> r.blockTimestamp,
      operator |-> r.operator,
      avs |-> r.avs,
      operator_id |-> flatten_nested_fields(r.operator),
      avs_id |-> flatten_nested_fields(r.avs),
      raw_data |-> [ id |-> r.id,
                     block_number |-> r.blockNumber,
                     block_timestamp |-> r.blockTimestamp,
                     operator |-> r.operator,
                     avs |-> r.avs,
                     operator_id |-> flatten_nested_fields(r.operator),
                     avs_id |-> flatten_nested_fields(r.avs) ],
      created_at |-> clock,
      updated_at |-> clock ]

\* flatten, rename, raw_data, timestamps for one record
transform_record(r, cfg, clock) ==
    [ id |-> r.id,
      block_number |-> r.blockNumber,
      log_index |-> IF cfg.has_logIndex THEN Some(r.logIndex) ELSE None,
      block_timestamp |-> r.blockTimestamp,
      operator |-> r.operator,
      avs |-> r.avs,
      operator_id |-> flatten_nested_fields(r.operator),
      avs_id |-> flatten_nested_fields(r.avs),
      raw_data |-> r,
      created_at |-> clock,
      updated_at |-> clock ]

transform_event_data(page, cfg, clock) ==
    [j \in 1..Len(page) |-> transform_record(page[j], cfg, clock)]

----------------------------------------------------------------------------
(* EntityDependencyResolver: extraction rules *)

\* an operator-set id "avs-n" is the pair <<avs, n>>; an id without "-" is a
\* 1-tuple
SetV0 == [kind |-> "obj", id |-> Some(<<"0xV", 0>>), operatorSetId |-> Some(0)]
SetV1 == [kind |-> "obj", id |-> Some(<<"0xV", 1>>), operatorSetId |-> Some(1)]
SetW0 == [kind |-> "obj", id |-> Some(<<"0xW", 0>>), operatorSetId |-> Some(0)]
SetNoSub == [kind |-> "obj", id |-> Some(<<"0xV", 2>>), operatorSetId |-> None]
SetNoDash == [kind |-> "obj", id |-> Some(<<"0xV">>), operatorSetId |-> Some(0)]
SetBare == [kind |-> "bare", id |-> Some(<<"0xV", 0>>), operatorSetId |-> None]
SetNull == [kind |-> "null", id |-> None, operatorSetId |-> None]

OperatorSetShapes ==
    {SetV0, SetV1, SetW0, SetNoSub, SetNoDash, SetBare, SetNull}

\* the dict the OperatorSet extractor builds for a value x of the column
operator_set_entry(x) ==
    [ id |-> x.id,
      avs_id |-> IF IsDict(x) /\ Len(TheValue(x.id)) >= 2
                 THEN Some(TheValue(x.id)[1])
                 ELSE None,
      operator_set_id |-> IF IsDict(x) THEN x.operatorSetId ELSE None ]

Truthy(x) == x.kind # "null"

\* df["operatorSet"].apply(lambda x: {...} if x else None).dropna().tolist()
operator_set_extractor(column) ==
    LET kept == SelectSeq(column, Truthy)
    IN  [ raised |-> \E j \in 1..Len(column) : column[j].kind = "noid",
          entries |-> [j \in 1..Len(kept) |-> operator_set_entry(kept[j])] ]

\* df[parent].apply(lambda x: x["id"] if isinstance(x, dict) else x), then
\* .dropna() where the descriptor has it, then .unique()
\* raised: x["id"] on an object without that key
entity_extractor(entity_type, cfg, df) ==
    LET parent == ParentField(entity_type)
        refs == {df[j][parent] : j \in 1..Len(df)}
        ids == {x.id : x \in refs}
    IN  IF entity_type = "OperatorSet"
        THEN LET out == operator_set_extractor([j \in 1..Len(df) |-> df[j][parent]])
             IN  [raised |-> out.raised, ids |-> out.entries]
        ELSE [ raised |-> \E x \in refs : x.kind = "noid",
               ids |-> IF cfg.dropna THEN ids \ {None} ELSE ids ]

----------------------------------------------------------------------------
(* PostgreSQL statements as the two writers issue them *)

Orders(S) ==
    {s \in [1..Cardinality(S) -> S] :
        \A j, k \in 1..Cardinality(S) : j # k => s[j] # s[k]}

\* One INSERT .. ON CONFLICT (id) DO UPDATE SET updated_at = now
\* RETURNING id, created_at, updated_at of _upsert_simple, with the
\* classification of the returned row.  tx is the state of the transaction:
\* its view of the table, whether a statement has failed in it, the counters.
\* A statement in a failed transaction raises; a NULL id violates the
\* primary key; every exception is counted as skipped.
upsert_one(tx, entity_id, clock) ==
    IF tx.aborted \/ entity_id = None
    THEN [tx EXCEPT !.aborted = TRUE, !.skipped = @ + 1]
    ELSE LET id == TheValue(entity_id) IN
         IF id \notin DOMAIN tx.table
         THEN [tx EXCEPT
                  !.table = @ @@ (id :> [address |-> id,
                                         created_at |-> clock,
                                         updated_at |-> clock]),
                  !.inserted = @ + 1]
         ELSE IF tx.table[id].created_at = clock
              THEN [tx EXCEPT !.table[id].updated_at = clock,
                              !.inserted = @ + 1]
              ELSE [tx EXCEPT !.table[id].updated_at = clock,
                              !.updated = @ + 1]

RECURSIVE upsert_loop(_, _, _)
upsert_loop(tx, unique_ids, clock) ==
    IF unique_ids = <<>>
    THEN tx
    ELSE upsert_loop(upsert_one(tx, Head(unique_ids), clock),
                     Tail(unique_ids), clock)

\* _upsert_simple on the ids in the order list(set(entity_ids)) gave them
upsert_simple(table, aborted, unique_ids, clock) ==
    upsert_loop([table |-> table, aborted |-> aborted,
                 inserted |-> 0, updated |-> 0, skipped |-> 0],
                unique_ids, clock)

\* int(value) of _prepare_row_data on a BIGINT column raises on a value that
\* is not a number
prepare_row_data_raises(row) == row.block_timestamp # "1700"

ReferenceColumn(row, entity_type) ==
    IF entity_type = "Operator" THEN row.operator_id ELSE row.avs_id

\* an event table created without its constraints
ConstraintViolated_never(row, cfg, lookup) == FALSE

\* nullable=False and ForeignKey of the reference columns of the event table
ConstraintViolated(row, cfg, lookup) ==
    \E t \in ForeignKeys(cfg) :
        \/ ReferenceColumn(row, t) = None
        \/ TheValue(ReferenceColumn(row, t)) \notin DOMAIN lookup[t]

\* a row prepared without its log_index
StoredRow_without_log_index(row) ==
    [ block_number |-> row.block_number,
      log_index |-> None,
      block_timestamp |-> row.block_timestamp,
      operator_id |-> row.operator_id,
      avs_id |-> row.avs_id,
      raw_data |-> row.raw_data,
      created_at |-> row.created_at,
      updated_at |-> row.updated_at ]

StoredRow(row) ==
    [ block_number |-> row.block_number,
      log_index |-> row.log_index,
      block_timestamp |-> row.block_timestamp,
      operator_id |-> row.operator_id,
      avs_id |-> row.avs_id,
      raw_data |-> row.raw_data,
      created_at |-> row.created_at,
      updated_at |-> row.updated_at ]

\* a loop body that drops a row it cannot prepare without counting it
load_one_uncounted(tx, row, cfg, lookup) ==
    IF prepare_row_data_raises(row)
    THEN tx
    ELSE IF tx.aborted \/ ConstraintViolated(row, cfg, lookup)
    THEN [tx EXCEPT !.aborted = TRUE, !.errors = @ + 1]
    ELSE IF row.id \notin DOMAIN tx.table
    THEN [tx EXCEPT !.table = @ @@ (row.id :> StoredRow(row)),
                    !.inserted = @ + 1]
    ELSE IF tx.table[row.id].updated_at # row.updated_at
    THEN LET created == tx.table[row.id].created_at
             written == [StoredRow(row) EXCEPT !.created_at = created]
         IN  IF written.created_at = written.updated_at
             THEN [tx EXCEPT !.table[row.id] = written, !.inserted = @ + 1]
             ELSE [tx EXCEPT !.table[row.id] = written, !.updated = @ + 1]
    ELSE [tx EXCEPT !.skipped = @ + 1]

\* the body of the for loop of load_events for one row: _prepare_row_data,
\* then INSERT .. ON CONFLICT (id) DO UPDATE SET <all but id, created_at>
\* WHERE table.updated_at != excluded.updated_at RETURNING id, action
load_one(tx, row, cfg, lookup) ==
    IF prepare_row_data_raises(row)
    THEN [tx EXCEPT !.errors = @ + 1]
    ELSE IF tx.aborted \/ ConstraintViolated(row, cfg, lookup)
    THEN [tx EXCEPT !.aborted = TRUE, !.errors = @ + 1]
    ELSE IF row.id \notin DOMAIN tx.table
    THEN [tx EXCEPT !.table = @ @@ (row.id :> StoredRow(row)),
                    !.inserted = @ + 1]
    ELSE IF tx.table[row.id].updated_at # row.updated_at
    THEN LET created == tx.table[row.id].created_at
             written == [StoredRow(row) EXCEPT !.created_at = created]
         IN  IF written.created_at = written.updated_at
             THEN [tx EXCEPT !.table[row.id] = written, !.inserted = @ + 1]
             ELSE [tx EXCEPT !.table[row.id] = written, !.updated = @ + 1]
    ELSE [tx EXCEPT !.skipped = @ + 1]

RECURSIVE load_loop(_, _, _, _)
load_loop(tx, df, cfg, lookup) ==
    IF df = <<>>
    THEN tx
    ELSE load_loop(load_one(tx, Head(df), cfg, lookup), Tail(df), cfg, lookup)

\* a loader that replaces the content of the table by the page
load_events_replace(table, df, cfg, lookup) ==
    load_loop([table |-> [i \in {} |-> None], aborted |-> FALSE, inserted |-> 0,
               updated |-> 0, skipped |-> 0, errors |-> 0],
              df, cfg, lookup)

\* load_events: the transaction after the last row
load_events(table, df, cfg, lookup) ==
    load_loop([table |-> table, aborted |-> FALSE, inserted |-> 0,
               updated |-> 0, skipped |-> 0, errors |-> 0],
              df, cfg, lookup)

\* session.commit() of get_session: COMMIT of a transaction in which a
\* statement failed is answered with ROLLBACK
commit(tx, committed) == IF tx.aborted THEN committed ELSE tx.table

----------------------------------------------------------------------------
(* The cycle: the four assets of create_event_extraction_and_load_assets *)

EmptyTable == [i \in {} |-> None]

\* no session of the entity step exists
ClosedSession ==
    [ state |-> "none", aborted |-> FALSE,
      tables |-> [t \in EntityTypes |-> EmptyTable], done |-> 0 ]

Init ==
    /\ config \in Descriptors
    /\ sink \in {[log_index_column |-> c] :
                    c \in IF config.has_logIndex THEN {TRUE} ELSE BOOLEAN}
    /\ source = <<>>
    /\ now = 0
    /\ events = EmptyTable
    /\ entities = [t \in EntityTypes |-> EmptyTable]
    /\ pc = "idle"
    /\ last_cursor = None
    /\ last_block = None
    /\ query = None
    /\ extract_output = None
    /\ transform_output = None
    /\ session = ClosedSession
    /\ entity_stats = EmptyTable
    /\ result = None
    /\ sessions = <<>>

\* the subgraph indexes one more event
Publish ==
    /\ pc = "idle"
    /\ Len(source) < MaxSource
    /\ \E v \in Variants :
           source' = Append(source, SourceRecord(Len(source) + 1, v, config))
    /\ UNCHANGED <<config, sink, now, events, entities, pc, last_cursor, last_block, query,
                   extract_output, transform_output, session, entity_stats,
                   result>>
    /\ UNCHANGED sessions

\* log_index or 0
OrZero(log_index) == IF log_index = None THEN 0 ELSE TheValue(log_index)

\* _extract_event up to build_query: the request planned from what
\* get_last_cursor and, without a cursor, get_last_processed_block returned
PlanQuery(lc, lb) ==
    LET cursor == IF lc # None
                  THEN Some([blockNumber |-> TheValue(lc)[1],
                             logIndex |-> Some(OrZero(TheValue(lc)[2]))])
                  ELSE None
        block_number_gte == IF lb # None
                            THEN Some(TheValue(lb) + 1)
                            ELSE None
    IN  build_query(PageSize, "blockNumber", cursor,
                    IF cursor # None THEN None ELSE block_number_gte)

\* the else branch of `if last_cursor` is the only reader of the last block
ReadLastBlock(lc, table) ==
    IF lc # None THEN None ELSE get_last_processed_block(table)

\* an extraction that hands an empty page on
ExtractOutput_always(data) == Some(data)

\* data = response.get("data", {}).get(name, []); None when it is empty
ExtractOutput(data) == IF data = <<>> THEN None ELSE Some(data)

\* _extract_event, the query answered
extract_event ==
    /\ pc = "idle"
    /\ now < MaxCycles
    /\ now' = now + 1
    /\ last_cursor' = get_last_cursor(events, sink)
    /\ last_block' = ReadLastBlock(last_cursor', events)
    /\ query' = Some(PlanQuery(last_cursor', last_block'))
    /\ \E data \in Pages(TheValue(query'), source) :
           extract_output' = ExtractOutput(data)
    /\ pc' = "extracted"
    /\ UNCHANGED <<config, sink, source, events, entities, transform_output,
                   session, entity_stats, result>>
    /\ UNCHANGED sessions

\* _extract_event, subgraph_client.query raising (no answer, or a status
\* that is not ok): the asset fails and the assets after it are skipped
extract_event_raises ==
    /\ pc = "idle"
    /\ now < MaxCycles
    /\ now' = now + 1
    /\ last_cursor' = get_last_cursor(events, sink)
    /\ last_block' = ReadLastBlock(last_cursor', events)
    /\ query' = Some(PlanQuery(last_cursor', last_block'))
    /\ pc' = "failed"
    /\ UNCHANGED <<config, sink, source, events, entities, extract_output,
                   transform_output, session, entity_stats, result>>
    /\ UNCHANGED sessions

\* a transform asset that does not wait for a materialized extraction
TransformMayStart_after_failure == pc \in {"extracted", "failed"}

\* ins of the transform asset: it runs once the extract asset has returned
TransformMayStart == pc = "extracted"

\* _transform_event
transform_event ==
    /\ TransformMayStart
    /\ transform_output' =
           IF extract_output = None
           THEN None
           ELSE Some(transform_event_data(TheValue(extract_output), config, now))
    /\ pc' = "transformed"
    /\ UNCHANGED <<config, sink, source, now, events, entities, last_cursor, last_block, query,
                   extract_output, session, entity_stats, result>>
    /\ UNCHANGED sessions

\* the entity types _upsert_entities has a branch for
SimpleEntityTypes == {"Operator", "Staker", "AVS", "Strategy"}

ZeroStats == [error |-> FALSE, inserted |-> 0, updated |-> 0, skipped |-> 0]

\* an entity step that can be started again after it has returned
UpsertMayStart_again == pc \in {"transformed", "resolved"}

\* ins of the upsert asset: it runs once the transform asset has returned
UpsertMayStart == pc = "transformed"

\* _upsert_entities up to the for loop: returns {} without a session when
\* there is no page, else opens the session
upsert_entities_enter ==
    /\ UpsertMayStart
    /\ IF transform_output = None
       THEN /\ pc' = "resolved"
            /\ session' = session
       ELSE /\ pc' = "resolving"
            /\ session' = [state |-> "open", aborted |-> FALSE,
                           tables |-> entities, done |-> 0]
    /\ entity_stats' = EmptyTable
    /\ UNCHANGED <<config, sink, source, now, events, entities, last_cursor, last_block, query,
                   extract_output, transform_output, result>>
    /\ UNCHANGED sessions

\* one iteration of the for loop of _upsert_entities: continue when the
\* descriptor has no extractor for the type, else extract, dispatch on the
\* entity type, record the stats or the error
upsert_entities_iteration ==
    /\ pc = "resolving"
    /\ session.done < Len(config.entity_dependencies)
    /\ LET entity_type == config.entity_dependencies[session.done + 1]
           extracted == entity_extractor(entity_type, config,
                                         TheValue(transform_output))
       IN  IF entity_type \notin config.entity_extractors
           THEN /\ entity_stats' = entity_stats
                /\ session' = [session EXCEPT !.done = @ + 1]
           ELSE IF extracted.raised
           THEN /\ entity_stats' =
                       entity_stats @@ (entity_type :> [ZeroStats EXCEPT !.error = TRUE])
                /\ session' = [session EXCEPT !.done = @ + 1]
           ELSE IF entity_type \in SimpleEntityTypes
           THEN \E unique_ids \in Orders(extracted.ids) :
                    LET tx == upsert_simple(session.tables[entity_type],
                                            session.aborted, unique_ids, now)
                    IN  /\ entity_stats' =
                               entity_stats @@
                               (entity_type :> [error |-> FALSE,
                                                inserted |-> tx.inserted,
                                                updated |-> tx.updated,
                                                skipped |-> tx.skipped])
                        /\ session' = [session EXCEPT
                                          !.tables[entity_type] = tx.table,
                                          !.aborted = tx.aborted,
                                          !.done = @ + 1]
           ELSE /\ entity_stats' = entity_stats @@ (entity_type :> ZeroStats)
                /\ session' = [session EXCEPT !.done = @ + 1]
    /\ UNCHANGED <<config, sink, source, now, events, entities, pc, last_cursor,
                   last_block, query, extract_output, transform_output, result>>
    /\ UNCHANGED sessions

\* leaving the with block of _upsert_entities: session.commit(), return
upsert_entities_exit ==
    /\ pc = "resolving"
    /\ session.done = Len(config.entity_dependencies)
    /\ entities' = [t \in DOMAIN entities |->
                       commit([table |-> session.tables[t],
                               aborted |-> session.aborted], entities[t])]
    /\ session' = [session EXCEPT !.state = "committed"]
    /\ pc' = "resolved"
    /\ UNCHANGED <<config, sink, source, now, events, last_cursor, last_block, query,
                   extract_output, transform_output, entity_stats>>
    /\ UNCHANGED result
    /\ UNCHANGED sessions

\* a report without the cursor value
MaxBlock_missing(df) == None

\* df["block_number"].max(), NaN for no rows
MaxBlock(df) ==
    IF df = <<>>
    THEN None
    ELSE Some(CHOOSE b \in {df[j].block_number : j \in 1..Len(df)} :
                  \A j \in 1..Len(df) : df[j].block_number <= b)

\* a load asset that does not take the output of the entity step
LoadMayStart_without_upsert == pc \in {"transformed", "resolving", "resolved"}

\* ins of the load asset: it runs once the transform and the upsert assets
\* have returned
LoadMayStart == pc = "resolved"

\* _load_event
load_event ==
    /\ LoadMayStart
    /\ IF transform_output = None
       THEN /\ result' = Some([ status |-> "no_new_data",
                                events_fetched |-> 0,
                                events_inserted |-> 0,
                                events_updated |-> 0,
                                events_skipped |-> 0,
                                events_errors |-> 0,
                                entities_upserted |-> EmptyTable,
                                last_block_processed |->
                                    get_last_processed_block(events) ])
            /\ events' = events
       ELSE LET df == TheValue(transform_output)
                load_stats == load_events(events, df, config, entities)
            IN  /\ events' = commit(load_stats, events)
                /\ result' = Some([ status |-> "success",
                                    events_fetched |-> Len(df),
                                    events_inserted |-> load_stats.inserted,
                                    events_updated |-> load_stats.updated,
                                    events_skipped |-> load_stats.skipped,
                                    events_errors |-> load_stats.errors,
                                    entities_upserted |-> entity_stats,
                                    last_block_processed |-> MaxBlock(df) ])
    /\ pc' = "done"
    /\ UNCHANGED <<config, sink, source, now, entities, last_cursor, last_block, query,
                   extract_output, transform_output, session, entity_stats>>
    /\ UNCHANGED sessions

\* the schedule starts the job again
next_invocation ==
    /\ pc \in {"done", "failed"}
    /\ pc' = "idle"
    /\ last_cursor' = None
    /\ last_block' = None
    /\ query' = None
    /\ extract_output' = None
    /\ transform_output' = None
    /\ session' = ClosedSession
    /\ entity_stats' = EmptyTable
    /\ result' = None
    /\ UNCHANGED <<config, sink, source, now, events, entities>>
    /\ UNCHANGED sessions

Next ==
    \/ Publish
    \/ extract_event
    \/ extract_event_raises
    \/ transform_event
    \/ upsert_entities_enter
    \/ upsert_entities_iteration
    \/ upsert_entities_exit
    \/ load_event
    \/ next_invocation

Spec == Init /\ [][Next]_vars

----------------------------------------------------------------------------
(* Properties *)

Report == TheValue(result)
Page == TheValue(transform_output)
Declared == {config.entity_dependencies[k] :
                k \in 1..Len(config.entity_dependencies)}

\* the columns of an event row other than the two instants
DataColumns(r) ==
    [ block_number |-> r.block_number, log_index |-> r.log_index,
      block_timestamp |-> r.block_timestamp, operator_id |-> r.operator_id,
      avs_id |-> r.avs_id, raw_data |-> r.raw_data ]

StoredUnchanged(row, table) ==
    /\ row.id \in DOMAIN table
    /\ DataColumns(table[row.id]) = DataColumns(row)

\* C1: loading a page whose rows are all stored already with the same data
\* columns writes nothing (the stored rows keep their updated_at) and the
\* report counts no insert, no update and every row as skipped.
C1_IdempotentReload ==
    [][ ( /\ pc = "resolved"
          /\ transform_output # None
          /\ \A j \in 1..Len(Page) : StoredUnchanged(Page[j], events) )
        => ( /\ events' = events
             /\ TheValue(result').events_inserted = 0
             /\ TheValue(result').events_updated = 0
             /\ TheValue(result').events_skipped = Len(Page) ) ]_vars

\* (block, log index) order on what get_last_cursor returns; no cursor is
\* below every cursor
CursorLE(c1, c2) ==
    \/ c1 = None
    \/ /\ c2 # None
       /\ \/ TheValue(c1)[1] < TheValue(c2)[1]
          \/ /\ TheValue(c1)[1] = TheValue(c2)[1]
             /\ OrZero(TheValue(c1)[2]) <= OrZero(TheValue(c2)[2])

BlockLE(b1, b2) ==
    b1 = None \/ (b2 # None /\ TheValue(b1) <= TheValue(b2))

NextCursor == get_last_cursor(events, sink)
NextBlock == ReadLastBlock(NextCursor, events)

\* C2: at the end of a successful cycle the cursor the next cycle reads is
\* not below the cursor this cycle read; after a no_new_data cycle it is the
\* same cursor.
C2_MonotonicCursor ==
    pc = "done" =>
        /\ Report.status = "success" =>
               CursorLE(last_cursor, NextCursor) /\ BlockLE(last_block, NextBlock)
        /\ Report.status = "no_new_data" =>
               NextCursor = last_cursor /\ NextBlock = last_block

C2_Witness ==
    /\ pc = "done"
    /\ Report.status = "success"
    /\ last_cursor # None
    /\ NextCursor # last_cursor

\* the entity a stored row names for an entity type: in its reference
\* column and in the payload it was made from
References(stored, entity_type) ==
    ReferenceColumn(stored, entity_type)
        \cup stored.raw_data[ParentField(entity_type)].id

\* C3: every entity a committed event row references, for every entity type
\* the descriptor declares, is a row of that type's lookup table.
C3_DependencyBeforeEvent ==
    \A i \in DOMAIN events : \A t \in Declared :
        References(events[i], t) \subseteq DOMAIN entities[t]

C3_Witness ==
    /\ pc = "done"
    /\ Report.status = "success"
    /\ Report.events_inserted > 0
    /\ \E i \in DOMAIN events : \A t \in Declared : References(events[i], t) # {}

RowFails(row) ==
    prepare_row_data_raises(row) \/ ConstraintViolated(row, config, entities)

\* C4: a loaded page with exactly one row that fails to write has errors = 1,
\* the other rows counted as inserted, updated or skipped, and every other
\* row in the table.
C4_RowIsolation ==
    ( /\ pc = "done"
      /\ Report.status = "success"
      /\ Cardinality({j \in 1..Len(Page) : RowFails(Page[j])}) = 1 )
    => /\ Report.events_errors = 1
       /\ Report.events_inserted + Report.events_updated
              + Report.events_skipped = Len(Page) - 1
       /\ \A j \in 1..Len(Page) :
              ~RowFails(Page[j]) => Page[j].id \in DOMAIN events

Positions ==
    {[blockNumber |-> b, logIndex |-> l] :
        b \in 0..(BlockOf(MaxSource) + 1), l \in 0..2}

\* C5: with a cursor (b, l) that has a log index, the planned filter selects
\* a position exactly when it is strictly after (b, l) in (block, log) order.
C5_StrictlyAfter ==
    (query # None /\ last_cursor # None /\ TheValue(last_cursor)[2] # None)
    => LET b == TheValue(last_cursor)[1]
           l == TheValue(TheValue(last_cursor)[2])
       IN  \A e \in Positions :
               Matches(TheValue(query).where, e)
                   <=> \/ e.blockNumber > b
                       \/ e.blockNumber = b /\ e.logIndex > l

\* cursor (1, 0), and the page holds the record at (1, 1)
C5_Witness ==
    /\ pc = "extracted"
    /\ last_cursor = Some(<<1, Some(0)>>)
    /\ extract_output # None
    /\ \E j \in 1..Len(TheValue(extract_output)) :
           /\ TheValue(extract_output)[j].blockNumber = 1
           /\ TheValue(extract_output)[j].logIndex = 1

\* C6: when the last stored row has no log index, the planned filter has no
\* log-index clause and selects every record of the last stored block that
\* is not stored yet.
C6_BlockOnlyFallback ==
    ( /\ pc = "extracted"
      /\ DOMAIN events # {}
      /\ (last_cursor = None \/ TheValue(last_cursor)[2] = None) )
    => /\ TheValue(query).where.or = None
       /\ \A i \in 1..Len(source) :
              ( /\ Some(source[i].blockNumber) = get_last_processed_block(events)
                /\ source[i].id \notin DOMAIN events )
              => Matches(TheValue(query).where, source[i])

\* the endpoint answered the request of this cycle with an empty list
EmptyFetch ==
    /\ pc \in {"extracted", "transformed", "resolving", "resolved"}
    /\ Pages(TheValue(query), source) = {<<>>}

NoNewDataReport ==
    [ status |-> "no_new_data", events_fetched |-> 0, events_inserted |-> 0,
      events_updated |-> 0, events_skipped |-> 0, events_errors |-> 0,
      entities_upserted |-> EmptyTable,
      last_block_processed |-> get_last_processed_block(events) ]

\* C7: after an empty fetch no step of the cycle writes an event or entity
\* table or opens the entity session, the cursor stays, the cycle does not
\* fail, and it ends with the no_new_data report whose counts are all 0.
C7_NoNewData ==
    [][ EmptyFetch
        => /\ events' = events
           /\ entities' = entities
           /\ session'.state = "none"
           /\ get_last_cursor(events', sink) = last_cursor
           /\ pc' \in {"transformed", "resolved", "done"}
           /\ pc' = "done" => result' = Some(NoNewDataReport) ]_vars

C7_Witness ==
    /\ pc = "done"
    /\ Report.status = "no_new_data"
    /\ DOMAIN events # {}

\* C8: a failed fetch leaves the cycle failed with nothing transformed,
\* resolved or loaded and no table written; the only step after it is the
\* next invocation, which plans the same request from the same cursor.
C8_FetchFailure ==
    [][ /\ pc' = "failed" =>
               /\ events' = events
               /\ entities' = entities
               /\ extract_output' = None
        /\ pc = "failed" =>
               /\ pc' = "idle"
               /\ events' = events
               /\ entities' = entities
               /\ transform_output' = None
               /\ session'.state = "none"
               /\ result' = None
               /\ get_last_cursor(events', sink) = last_cursor
               /\ Some(PlanQuery(get_last_cursor(events', sink),
                                 ReadLastBlock(get_last_cursor(events', sink),
                                               events'))) = query ]_vars

C8_Witness ==
    /\ pc = "failed"
    /\ last_cursor # None
    /\ \E i \in 1..Len(source) : Matches(TheValue(query).where, source[i])

\* the lookup tables had every reference of the page been upserted
WithReferences(lookup, df) ==
    [t \in EntityTypes |->
        LET missing == UNION {References(StoredRow(df[j]), t) : j \in 1..Len(df)}
                           \ DOMAIN lookup[t]
        IN  lookup[t] @@ [id \in missing |->
                             [address |-> id, created_at |-> now,
                              updated_at |-> now]]]

\* C9: when one entity type of the cycle has an error entry, every reference
\* of the other declared types is committed and events_inserted is what the
\* load gives with the failed type's references in place.
C9_EntityTypeIsolation ==
    [][ ( /\ pc = "resolved"
          /\ transform_output # None
          /\ \E t \in DOMAIN entity_stats : entity_stats[t].error )
        => /\ \A t \in DOMAIN entity_stats :
                  ~entity_stats[t].error =>
                      \A id \in entity_extractor(t, config, Page).ids \ {None} :
                          TheValue(id) \in DOMAIN entities[t]
           /\ pc' = "done"
           /\ TheValue(result').events_inserted =
                  load_events(events, Page, config,
                              WithReferences(entities, Page)).inserted ]_vars

\* C10: an event table changes only in a step taken after the entity
\* session of the cycle went through all declared types and was committed.
C10_ResolveBeforeLoad ==
    [][ events' # events
        => /\ session.state = "committed"
           /\ session.done = Len(config.entity_dependencies) ]_vars

C10_Witness ==
    /\ pc = "done"
    /\ session.state = "committed"
    /\ Report.events_inserted > 0
    /\ DOMAIN events # {}

----------------------------------------------------------------------------
(* Concurrent cycles: entity sessions that overlap on a shared lookup table *)
(* (PostgreSQL READ COMMITTED: a statement waits for the transaction that  *)
(* holds an uncommitted version of the row it touches)                     *)

MaxWriters == 2    \* cycles whose entity sessions overlap

Writers == 1..MaxWriters

\* operator addresses the pages of the overlapping cycles reference
EntityIds == {"0xA", "0xB"}

NoWriter ==
    [ state |-> "none", entity_ids |-> {}, unique_ids |-> <<>>, clock |-> 0,
      writes |-> EmptyTable, aborted |-> FALSE, failed |-> {},
      inserted |-> 0, updated |-> 0, skipped |-> 0 ]

\* what a statement of writer c sees: the committed rows and its own writes
View(c) ==
    [id \in DOMAIN entities["Operator"] \cup DOMAIN sessions[c].writes |->
        IF id \in DOMAIN sessions[c].writes
        THEN sessions[c].writes[id]
        ELSE entities["Operator"][id]]

\* the open transactions other than c's that wrote the row
LockHolders(id, c) ==
    {d \in Writers \ {c} :
        sessions[d].state = "open" /\ id \in DOMAIN sessions[d].writes}

\* the transactions the next statement of c waits for
WaitsFor(c) ==
    IF /\ sessions[c].state = "open"
       /\ sessions[c].unique_ids # <<>>
       /\ ~sessions[c].aborted
    THEN LockHolders(Head(sessions[c].unique_ids), c)
    ELSE {}

RECURSIVE WaitChain(_, _)
WaitChain(S, n) ==
    IF n = 0
    THEN S
    ELSE WaitChain(S \cup UNION {WaitsFor(d) : d \in S}, n - 1)

\* c waits, directly or not, for a transaction that waits for c
Deadlocked(c) == c \in WaitChain(WaitsFor(c), MaxWriters)

InitConcurrent ==
    /\ config = OPERATOR_REGISTERED_CONFIG
    /\ sink = [log_index_column |-> TRUE]
    /\ source = <<>>
    /\ now = 0
    /\ events = EmptyTable
    /\ entities \in
           {[t \in EntityTypes |-> EmptyTable],
            [t \in EntityTypes |->
                IF t = "Operator"
                THEN ("0xA" :> [address |-> "0xA", created_at |-> 0,
                                updated_at |-> 0])
                ELSE EmptyTable]}
    /\ pc = "idle"
    /\ last_cursor = None
    /\ last_block = None
    /\ query = None
    /\ extract_output = None
    /\ transform_output = None
    /\ session = ClosedSession
    /\ entity_stats = EmptyTable
    /\ result = None
    /\ sessions = [c \in Writers |-> NoWriter]

\* a cycle enters _upsert_simple inside its session: unique_ids, now
session_begin ==
    \E c \in Writers :
        /\ sessions[c].state = "none"
        /\ \E ids \in SUBSET EntityIds \ {{}} :
               \E unique_ids \in Orders(ids) :
                   sessions' = [sessions EXCEPT ![c] =
                                   [NoWriter EXCEPT !.state = "open",
                                                    !.entity_ids = ids,
                                                    !.unique_ids = unique_ids,
                                                    !.clock = now + 1]]
        /\ now' = now + 1
        /\ UNCHANGED <<config, sink, source, events, entities, pc, last_cursor,
                       last_block, query, extract_output, transform_output,
                       session, entity_stats, result>>

\* session.execute(stmt) for the next id, no other transaction holding the row
session_execute ==
    \E c \in Writers :
        /\ sessions[c].state = "open"
        /\ sessions[c].unique_ids # <<>>
        /\ WaitsFor(c) = {}
        /\ LET w == sessions[c]
               id == Head(w.unique_ids)
               tx == upsert_one([table |-> View(c), aborted |-> w.aborted,
                                 inserted |-> w.inserted, updated |-> w.updated,
                                 skipped |-> w.skipped], Some(id), w.clock)
           IN  sessions' = [sessions EXCEPT ![c] =
                   [w EXCEPT !.unique_ids = Tail(w.unique_ids),
                             !.writes = IF tx.aborted
                                        THEN @
                                        ELSE (id :> tx.table[id]) @@ @,
                             !.aborted = tx.aborted,
                             !.failed = IF tx.aborted THEN @ \cup {id} ELSE @,
                             !.inserted = tx.inserted,
                             !.updated = tx.updated,
                             !.skipped = tx.skipped]]
        /\ UNCHANGED <<config, sink, source, now, events, entities, pc,
                       last_cursor, last_block, query, extract_output,
                       transform_output, session, entity_stats, result>>

\* the statement of a transaction in a wait cycle is cancelled by the
\* deadlock detector: session.execute raises, the except branch counts the
\* id as skipped and the loop goes on in the failed transaction
session_deadlock ==
    \E c \in Writers :
        /\ Deadlocked(c)
        /\ LET w == sessions[c] IN
           sessions' = [sessions EXCEPT ![c] =
               [w EXCEPT !.unique_ids = Tail(w.unique_ids),
                         !.aborted = TRUE,
                         !.failed = @ \cup {Head(w.unique_ids)},
                         !.skipped = @ + 1]]
        /\ UNCHANGED <<config, sink, source, now, events, entities, pc,
                       last_cursor, last_block, query, extract_output,
                       transform_output, session, entity_stats, result>>

\* leaving the with block: COMMIT (ROLLBACK for a failed transaction); the
\* row locks are released
session_close ==
    \E c \in Writers :
        /\ sessions[c].state = "open"
        /\ sessions[c].unique_ids = <<>>
        /\ entities' = [entities EXCEPT !["Operator"] =
                           commit([table |-> View(c),
                                   aborted |-> sessions[c].aborted], @)]
        /\ sessions' = [sessions EXCEPT
                           ![c].state = "closed",
                           ![c].writes = IF sessions[c].aborted
                                         THEN EmptyTable
                                         ELSE @]
        /\ UNCHANGED <<config, sink, source, now, events, pc, last_cursor,
                       last_block, query, extract_output, transform_output,
                       session, entity_stats, result>>

NextConcurrent ==
    \/ session_begin
    \/ session_execute
    \/ session_deadlock
    \/ session_close

SpecConcurrent == InitConcurrent /\ [][NextConcurrent]_vars

\* the writers whose statement for the id took the insert path
Inserters(id) ==
    {c \in Writers :
        /\ id \in DOMAIN sessions[c].writes
        /\ sessions[c].writes[id].created_at = sessions[c].clock}

\* C11: when the overlapping cycles have all left their sessions, every id
\* that all of them upserted is one row of the table, no cycle's statement for
\* it failed, and for an id that was new exactly one statement inserted it
\* and the row keeps that statement's created_at.
C11_AtomicConcurrentUpsert ==
    (\A c \in Writers : sessions[c].state = "closed")
    => \A id \in EntityIds :
           (\A c \in Writers : id \in sessions[c].entity_ids)
           => /\ id \in DOMAIN entities["Operator"]
              /\ \A c \in Writers : id \notin sessions[c].failed
              /\ entities["Operator"][id].created_at # 0 =>
                     /\ Cardinality(Inserters(id)) = 1
                     /\ \A c \in Inserters(id) :
                            entities["Operator"][id].created_at = sessions[c].clock

----------------------------------------------------------------------------
(* Interrupted cycles: the process dies between or inside the steps *)

\* a connection that commits every statement as it is executed
rollback_keeps_writes(tx, committed) == tx.table

\* what becomes of a transaction that never reached COMMIT: session.rollback()
\* of get_session, or the server dropping it with the connection
rollback(tx, committed) == committed

\* the process dies after the fetch: before or inside the entity session, or
\* after it, up to some row of load_events short of the commit
crash ==
    /\ pc \in {"extracted", "transformed", "resolving", "resolved"}
    /\ LET df == IF pc = "resolved" /\ transform_output # None
                 THEN TheValue(transform_output)
                 ELSE <<>>
       IN  \E k \in 0..Len(df) :
               events' = rollback(load_events(events, SubSeq(df, 1, k),
                                              config, entities),
                                  events)
    /\ entities' =
           IF pc = "resolving"
           THEN [t \in EntityTypes |->
                    rollback([table |-> session.tables[t],
                              aborted |-> session.aborted], entities[t])]
           ELSE entities
    /\ pc' = "crashed"
    /\ UNCHANGED <<config, sink, source, now, last_cursor, last_block, query,
                   extract_output, transform_output, session, entity_stats,
                   result, sessions>>

\* the schedule starts the job in a new process
restart ==
    /\ pc = "crashed"
    /\ pc' = "idle"
    /\ last_cursor' = None
    /\ last_block' = None
    /\ query' = None
    /\ extract_output' = None
    /\ transform_output' = None
    /\ session' = ClosedSession
    /\ entity_stats' = EmptyTable
    /\ result' = None
    /\ UNCHANGED <<config, sink, source, now, events, entities, sessions>>

NextCrash ==
    \/ Publish
    \/ extract_event
    \/ extract_event_raises
    \/ transform_event
    \/ upsert_entities_enter
    \/ upsert_entities_iteration
    \/ upsert_entities_exit
    \/ load_event
    \/ next_invocation
    \/ crash
    \/ restart

SpecCrash == Init /\ [][NextCrash]_vars

\* the entity step as a whole: the session over the declared types, committed
RECURSIVE upsert_entities_loop(_, _, _, _, _)
upsert_entities_loop(s, k, df, cfg, clock) ==
    IF k > Len(cfg.entity_dependencies)
    THEN s
    ELSE LET entity_type == cfg.entity_dependencies[k]
             extracted == entity_extractor(entity_type, cfg, df)
         IN  IF \/ entity_type \notin cfg.entity_extractors
                \/ extracted.raised
                \/ entity_type \notin SimpleEntityTypes
             THEN upsert_entities_loop(s, k + 1, df, cfg, clock)
             ELSE LET tx == upsert_simple(s.tables[entity_type], s.aborted,
                                          CHOOSE o \in Orders(extracted.ids) : TRUE,
                                          clock)
                  IN  upsert_entities_loop(
                          [tables |-> [s.tables EXCEPT ![entity_type] = tx.table],
                           aborted |-> tx.aborted],
                          k + 1, df, cfg, clock)

upsert_entities(lookup, df, cfg, clock) ==
    LET s == upsert_entities_loop([tables |-> lookup, aborted |-> FALSE],
                                  1, df, cfg, clock)
    IN  [t \in DOMAIN lookup |->
            commit([table |-> s.tables[t], aborted |-> s.aborted], lookup[t])]

\* transform, entity step and load of one page on committed tables
RunCycle(ev, lookup, page, cfg, clock) ==
    LET df == transform_event_data(page, cfg, clock)
        resolved == upsert_entities(lookup, df, cfg, clock)
    IN  [ events |-> commit(load_events(ev, df, cfg, resolved), ev),
          entities |-> resolved ]

\* what is stored, the two instants of the rows apart
Contents(ev, lookup) ==
    [ events |-> [i \in DOMAIN ev |-> DataColumns(ev[i])],
      entities |-> [t \in DOMAIN lookup |-> DOMAIN lookup[t]] ]

\* the lookup tables an uninterrupted cycle can have started from, given
\* what is committed now
StartStates ==
    IF session.state # "committed"
    THEN {entities}
    ELSE LET ids == UNION {DOMAIN entities[t] : t \in EntityTypes}
             candidates ==
                 {[t \in EntityTypes |-> [id \in d[t] |-> entities[t][id]]] :
                     d \in {e \in [EntityTypes -> SUBSET ids] :
                               \A t \in EntityTypes : e[t] \subseteq DOMAIN entities[t]}}
         IN  {b \in candidates :
                 Contents(events, upsert_entities(b, Page, config, now)).entities
                     = Contents(events, entities).entities}

\* C12: a crash at any point after the fetch leaves the event table and the
\* committed lookup tables as they were (no part of a page, nothing of an open
\* session), the next cycle plans the same request, and running it on the
\* interrupted page stores the same rows and the same entities as the
\* uninterrupted cycle would have.
C12_Resumable ==
    [][ pc' = "crashed"
        => /\ events' = events
           /\ entities' = entities
           /\ Some(PlanQuery(get_last_cursor(events', sink),
                             ReadLastBlock(get_last_cursor(events', sink),
                                           events'))) = query
           /\ extract_output # None =>
                  \A b \in StartStates :
                      LET rerun == RunCycle(events', entities',
                                            TheValue(extract_output), config,
                                            now + 1)
                          straight == RunCycle(events, b,
                                               TheValue(extract_output), config,
                                               now)
                      IN  Contents(rerun.events, rerun.entities)
                              = Contents(straight.events, straight.entities) ]_vars

\* the entity session was committed and the process died before the load
\* committed
C12_Witness ==
    /\ pc = "crashed"
    /\ session.state = "committed"
    /\ transform_output # None
    /\ \E t \in EntityTypes : DOMAIN entities[t] # {}
    /\ \A j \in 1..Len(Page) : Page[j].id \notin DOMAIN events

----------------------------------------------------------------------------
(* A source that re-indexes: a published record comes back changed *)

\* the subgraph replaces a record it has published (same id and position);
\* for a record no cycle has stored yet this is no more than Publish
reindex ==
    /\ pc = "idle"
    /\ \E i \in DOMAIN events :
           \E v \in Variants :
               /\ SourceRecord(i, v, config) # source[i]
               /\ source' = [source EXCEPT ![i] = SourceRecord(i, v, config)]
    /\ UNCHANGED <<config, sink, now, events, entities, pc, last_cursor,
                   last_block, query, extract_output, transform_output,
                   session, entity_stats, result, sessions>>

NextReindex ==
    \/ Publish
    \/ reindex
    \/ extract_event
    \/ extract_event_raises
    \/ transform_event
    \/ upsert_entities_enter
    \/ upsert_entities_iteration
    \/ upsert_entities_exit
    \/ load_event
    \/ next_invocation

SpecReindex == Init /\ [][NextReindex]_vars

\* the row collides with a stored row and differs from it in a data column
ChangedReingest(row, table) ==
    /\ row.id \in DOMAIN table
    /\ DataColumns(table[row.id]) # DataColumns(row)

\* C13: the load of a page overwrites every stored row that an incoming row
\* of the page collides with and differs from: all columns but id and
\* created_at take the incoming values, updated_at the incoming instant,
\* created_at stays, and the report counts these rows as updated.
C13_ChangedReingest ==
    [][ ( /\ pc = "resolved"
          /\ transform_output # None
          /\ \E j \in 1..Len(Page) :
                 /\ ChangedReingest(Page[j], events)
                 /\ ~RowFails(Page[j]) )
        => LET changed == {j \in 1..Len(Page) :
                              /\ ChangedReingest(Page[j], events)
                              /\ ~RowFails(Page[j])}
           IN  /\ \A j \in changed :
                      /\ DataColumns(events'[Page[j].id]) = DataColumns(Page[j])
                      /\ events'[Page[j].id].updated_at = Page[j].updated_at
                      /\ events'[Page[j].id].created_at
                             = events[Page[j].id].created_at
               /\ TheValue(result').events_updated >= Cardinality(changed) ]_vars

----------------------------------------------------------------------------
(* EntityManager: the composite and the FK-bearing upsert routines *)

MaxBatch == 2      \* entries in one call of an upsert routine

\* a routine that sends every entry to the store
operator_set_entry_invalid_never(entry) == FALSE

\* if not avs_id or op_set_id is None
operator_set_entry_invalid(entry) ==
    entry.avs_id = None \/ entry.operator_set_id = None

\* a key that takes its second component from the clock of the call
composite_id_stamped(entry) == <<TheValue(entry.avs_id), now>>

\* entry.get("id") or f"{avs_id}-{op_set_id}"
composite_id(entry) ==
    IF entry.id # None
    THEN TheValue(entry.id)
    ELSE <<TheValue(entry.avs_id), TheValue(entry.operator_set_id)>>

\* the loop body of upsert_operator_sets: skip an invalid entry, else one
\* INSERT .. ON CONFLICT (id) DO UPDATE SET updated_at = now RETURNING ..;
\* avs_id is NOT NULL and a foreign key to avs.id
upsert_operator_set(tx, entry, avs, clock) ==
    IF operator_set_entry_invalid(entry)
    THEN [tx EXCEPT !.skipped = @ + 1]
    ELSE IF \/ tx.aborted
            \/ entry.avs_id = None
            \/ entry.operator_set_id = None
            \/ TheValue(entry.avs_id) \notin DOMAIN avs
    THEN [tx EXCEPT !.aborted = TRUE, !.skipped = @ + 1]
    ELSE LET id == composite_id(entry) IN
         IF id \notin DOMAIN tx.table
         THEN [tx EXCEPT
                  !.table = @ @@ (id :> [avs_id |-> TheValue(entry.avs_id),
                                         operator_set_id |->
                                             TheValue(entry.operator_set_id),
                                         created_at |-> clock,
                                         updated_at |-> clock]),
                  !.inserted = @ + 1]
         ELSE IF tx.table[id].created_at = clock
              THEN [tx EXCEPT !.table[id].updated_at = clock,
                              !.inserted = @ + 1]
              ELSE [tx EXCEPT !.table[id].updated_at = clock,
                              !.updated = @ + 1]

RECURSIVE upsert_operator_sets_loop(_, _, _, _)
upsert_operator_sets_loop(tx, operator_set_data, avs, clock) ==
    IF operator_set_data = <<>>
    THEN tx
    ELSE upsert_operator_sets_loop(
             upsert_operator_set(tx, Head(operator_set_data), avs, clock),
             Tail(operator_set_data), avs, clock)

upsert_operator_sets(table, operator_set_data, avs, clock) ==
    upsert_operator_sets_loop([table |-> table, aborted |-> FALSE,
                               inserted |-> 0, updated |-> 0, skipped |-> 0],
                              operator_set_data, avs, clock)

\* entries of pod_data
PodS == [id |-> None, address |-> Some("0xP"), owner_id |-> Some("0xS")]
PodT == [id |-> None, address |-> Some("0xP"), owner_id |-> Some("0xT")]
PodNoOwner == [id |-> None, address |-> Some("0xP"), owner_id |-> None]
PodQ == [id |-> Some("0xQ"), address |-> Some("0xQ"), owner_id |-> Some("0xS")]

PodEntries == {PodS, PodT, PodNoOwner, PodQ}

\* the loop body of upsert_eigen_pods: skip an entry without address or
\* owner, else INSERT .. ON CONFLICT (id) DO UPDATE SET owner_id, updated_at
\* WHERE eigen_pods.owner_id != owner_id RETURNING ..; no row comes back when
\* the WHERE is false; owner_id is a foreign key to stakers.id
upsert_eigen_pod(tx, entry, stakers, clock) ==
    IF entry.address = None \/ entry.owner_id = None
    THEN [tx EXCEPT !.skipped = @ + 1]
    ELSE IF tx.aborted \/ TheValue(entry.owner_id) \notin DOMAIN stakers
    THEN [tx EXCEPT !.aborted = TRUE, !.skipped = @ + 1]
    ELSE LET id == IF entry.id # None
                   THEN TheValue(entry.id)
                   ELSE TheValue(entry.address)
             owner_id == TheValue(entry.owner_id)
         IN  IF id \notin DOMAIN tx.table
             THEN [tx EXCEPT
                      !.table = @ @@ (id :> [address |-> TheValue(entry.address),
                                             owner_id |-> owner_id,
                                             created_at |-> clock,
                                             updated_at |-> clock]),
                      !.inserted = @ + 1]
             ELSE IF tx.table[id].owner_id # owner_id
             THEN IF tx.table[id].created_at = clock
                  THEN [tx EXCEPT !.table[id].owner_id = owner_id,
                                  !.table[id].updated_at = clock,
                                  !.inserted = @ + 1]
                  ELSE [tx EXCEPT !.table[id].owner_id = owner_id,
                                  !.table[id].updated_at = clock,
                                  !.updated = @ + 1]
             ELSE [tx EXCEPT !.skipped = @ + 1]

RECURSIVE upsert_eigen_pods_loop(_, _, _, _)
upsert_eigen_pods_loop(tx, pod_data, stakers, clock) ==
    IF pod_data = <<>>
    THEN tx
    ELSE upsert_eigen_pods_loop(
             upsert_eigen_pod(tx, Head(pod_data), stakers, clock),
             Tail(pod_data), stakers, clock)

upsert_eigen_pods(table, pod_data, stakers, clock) ==
    upsert_eigen_pods_loop([table |-> table, aborted |-> FALSE,
                            inserted |-> 0, updated |-> 0, skipped |-> 0],
                           pod_data, stakers, clock)

----------------------------------------------------------------------------
(* The upsert routines called one after the other, each in its own session *)

ManagedTypes == {"AVS", "Staker", "OperatorSet", "EigenPod"}

\* the addresses the batches of the simple routines name
AddressesOf(entity_type) ==
    IF entity_type = "AVS" THEN {"0xV"} ELSE {"0xS", "0xT"}

Batches(S) == UNION {[1..n -> S] : n \in 1..MaxBatch}

Range(seq) == {seq[j] : j \in 1..Len(seq)}

InitManager ==
    /\ config = OPERATOR_AVS_REGISTRATION_STATUS_UPDATED_CONFIG
    /\ sink = [log_index_column |-> TRUE]
    /\ source = <<>>
    /\ now = 0
    /\ events = EmptyTable
    /\ entities = [t \in ManagedTypes |-> EmptyTable]
    /\ pc = "idle"
    /\ last_cursor = None
    /\ last_block = None
    /\ query = None
    /\ extract_output = None
    /\ transform_output = None
    /\ session = ClosedSession
    /\ entity_stats = EmptyTable
    /\ result = None
    /\ sessions = <<>>

\* with get_session() as session: stats = <routine>(session, data): the
\* session of one call, committed when the with block is left
Called(entity_type, data, tx) ==
    /\ now' = now + 1
    /\ session' = [ state |-> "committed", aborted |-> tx.aborted,
                    tables |-> tx.table, done |-> 1,
                    entity_type |-> entity_type, data |-> data ]
    /\ entity_stats' = (entity_type :> [error |-> FALSE,
                                        inserted |-> tx.inserted,
                                        updated |-> tx.updated,
                                        skipped |-> tx.skipped])
    /\ entities' = [entities EXCEPT ![entity_type] = commit(tx, @)]
    /\ UNCHANGED <<config, sink, source, events, pc, last_cursor, last_block,
                   query, extract_output, transform_output, result, sessions>>

\* upsert_avs, upsert_stakers
call_upsert_simple ==
    /\ now < MaxCycles
    /\ \E entity_type \in {"AVS", "Staker"} :
           \E entity_ids \in Batches(AddressesOf(entity_type)) :
               \E unique_ids \in Orders({Some(id) : id \in Range(entity_ids)}) :
                   Called(entity_type, entity_ids,
                          upsert_simple(entities[entity_type], FALSE,
                                        unique_ids, now + 1))

\* upsert_operator_sets on what the OperatorSet extractor made of a column
call_upsert_operator_sets ==
    /\ now < MaxCycles
    /\ \E column \in Batches(OperatorSetShapes) :
           LET operator_set_data == operator_set_extractor(column).entries
           IN  Called("OperatorSet", operator_set_data,
                      upsert_operator_sets(entities["OperatorSet"],
                                           operator_set_data,
                                           entities["AVS"], now + 1))

\* upsert_eigen_pods
call_upsert_eigen_pods ==
    /\ now < MaxCycles
    /\ \E pod_data \in Batches(PodEntries) :
           Called("EigenPod", pod_data,
                  upsert_eigen_pods(entities["EigenPod"], pod_data,
                                    entities["Staker"], now + 1))

NextManager ==
    \/ call_upsert_simple
    \/ call_upsert_operator_sets
    \/ call_upsert_eigen_pods

SpecManager == InitManager /\ [][NextManager]_vars

\* C14: in every call of an upsert routine the count of inserted is the
\* number of ids the transaction holds that were not in the table before,
\* and the count of updated is the number of rows that were in the table
\* before and that the transaction changed.
C14_InsertedUpdatedClassification ==
    [][ LET t == session'.entity_type
            stats == entity_stats'[t]
        IN  /\ stats.inserted =
                   Cardinality(DOMAIN session'.tables \ DOMAIN entities[t])
            /\ stats.updated =
                   Cardinality({id \in DOMAIN entities[t] :
                                   session'.tables[id] # entities[t][id]}) ]_vars

----------------------------------------------------------------------------
(* Scenario A *)

\* the record of Scenario A: the first record of the stream, at the first
\* position of the stream (block 1, log 0 at the scale of BlockOf and LogOf),
\* with operator {id: 0xA}
ScenarioA ==
    SourceRecord(1, [operator |-> ObjA, blockTimestamp |-> "1700"], config)

\* the first cycle of a behaviour (it starts from empty tables) fetched the
\* one-record page of Scenario A and has returned
ScenarioACycle ==
    /\ pc = "done"
    /\ now = 1
    /\ config.has_logIndex
    /\ extract_output = Some(<<ScenarioA>>)

\* C15: starting from empty tables, a cycle over the one-record page
\* {id, blockNumber, logIndex: 0, operator: {id: 0xA}} ends with the
\* operators table containing 0xA, the event table containing the row of
\* the record, status success with events_inserted = 1, and the cursor the
\* next cycle reads equal to (blockNumber, 0).
C15_ScenarioA ==
    ScenarioACycle =>
        /\ "0xA" \in DOMAIN entities["Operator"]
        /\ DOMAIN events = {ScenarioA.id}
        /\ events[ScenarioA.id].operator_id = Some("0xA")
        /\ Report.status = "success"
        /\ Report.events_fetched = 1
        /\ Report.events_inserted = 1
        /\ Report.events_errors = 0
        /\ NextCursor = Some(<<ScenarioA.blockNumber, Some(ScenarioA.logIndex)>>)

C15_Witness ==
    /\ ScenarioACycle
    /\ DOMAIN events = {ScenarioA.id}
    /\ NextCursor = Some(<<1, Some(0)>>)

----------------------------------------------------------------------------
(* The entity step of a descriptor that declares a composite entity type *)

ALLOCATION_EVENT_CONFIG ==
    [ table_name |-> "allocation_events",
      has_logIndex |-> TRUE,
      entity_dependencies |-> <<"Operator", "OperatorSet", "Strategy">>,
      entity_extractors |-> {"Operator", "OperatorSet", "Strategy"},
      dropna |-> TRUE ]

ObjS == [kind |-> "obj", id |-> Some("0xS")]

\* the columns of a transformed allocation row the extractors read
AllocationRows ==
    { [operator |-> o, operatorSet |-> s, strategy |-> ObjS] :
          o \in {ObjA, Null, NoId}, s \in OperatorSetShapes }

AllocationPages == UNION {[1..n -> AllocationRows] : n \in 1..PageSize}

ResolverTypes == {"Operator", "OperatorSet", "Strategy", "AVS"}

\* the transform asset of the allocation events has returned; the avs table
\* is empty or holds 0xV from the cycle of another descriptor
InitResolver ==
    /\ config = ALLOCATION_EVENT_CONFIG
    /\ sink = [log_index_column |-> TRUE]
    /\ source = <<>>
    /\ now = 1
    /\ events = EmptyTable
    /\ \E avs \in {EmptyTable,
                    "0xV" :> [address |-> "0xV", created_at |-> 0,
                              updated_at |-> 0]} :
           entities = [t \in ResolverTypes |->
                          IF t = "AVS" THEN avs ELSE EmptyTable]
    /\ pc = "transformed"
    /\ last_cursor = None
    /\ last_block = None
    /\ query = None
    /\ extract_output = None
    /\ transform_output \in {None} \cup {Some(df) : df \in AllocationPages}
    /\ session = ClosedSession
    /\ entity_stats = EmptyTable
    /\ result = None
    /\ sessions = <<>>

NextResolver ==
    \/ upsert_entities_enter
    \/ upsert_entities_iteration
    \/ upsert_entities_exit

SpecResolver == InitResolver /\ [][NextResolver]_vars

\* the identities the extractor of an entity type yields for the page, one
\* per reference that can be upserted
Extracted(entity_type) ==
    LET out == entity_extractor(entity_type, config, Page)
    IN  IF entity_type = "OperatorSet"
        THEN {composite_id(out.ids[j]) :
                 j \in {k \in 1..Len(out.ids) :
                           ~operator_set_entry_invalid(out.ids[k])}}
        ELSE {TheValue(x) : x \in out.ids \ {None}}

\* C16: for every entity type a descriptor declares and has an extractor
\* for, the composite OperatorSet included, the entity step upserts every
\* extracted reference into the lookup table of that type; no declared type
\* is passed over with zero work.
C16_EveryDeclaredTypeResolved ==
    (pc = "resolved" /\ transform_output # None) =>
        \A t \in Declared :
            (~entity_extractor(t, config, Page).raised /\ ~session.aborted) =>
                Extracted(t) \subseteq DOMAIN entities[t]

\* the reference lists the extractor of an entity type can hand to the
\* upsert routine for the page: the list of entries of the OperatorSet
\* extractor, the list .unique().tolist() gives for a simple type
ReferenceLists(entity_type) ==
    LET out == entity_extractor(entity_type, config, Page)
    IN  IF entity_type = "OperatorSet" THEN {out.ids} ELSE Orders(out.ids)

Identity(entity_type, ref) ==
    IF entity_type = "OperatorSet" THEN ref.id ELSE ref

\* C17: for every declared entity type, simple or composite, the reference
\* set produced from a page contains each entity identity at most once,
\* however many rows of the page reference it.
C17_DeduplicatedReferences ==
    transform_output # None =>
        \A t \in Declared :
            ~entity_extractor(t, config, Page).raised =>
                \A refs \in ReferenceLists(t) :
                    \A j, k \in 1..Len(refs) :
                        j # k => Identity(t, refs[j]) # Identity(t, refs[k])

----------------------------------------------------------------------------
(* Composite references without a sub-id *)

\* the reference has no sub-id, or no parent AVS id
MissingSubId(entry) == entry.operator_set_id = None \/ entry.avs_id = None

\* C18: an operator-set reference that lacks the sub-id (or the parent AVS
\* id) is skipped: no row is written for it, it is counted as skipped, the
\* routine returns its counts, and every other reference of the same batch
\* is still upserted.
C18_MissingSubIdSkipped ==
    [][ session'.entity_type = "OperatorSet" =>
          LET data == session'.data
              missing == {j \in 1..Len(data) : MissingSubId(data[j])}
              others == (1..Len(data)) \ missing
              ids == {composite_id(data[j]) : j \in others}
              before == entities["OperatorSet"]
              after == entities'["OperatorSet"]
              stats == entity_stats'["OperatorSet"]
              stored == \A j \in others :
                            TheValue(data[j].avs_id) \in DOMAIN entities["AVS"]
          IN  /\ DOMAIN after \ DOMAIN before \subseteq ids
              /\ \A id \in DOMAIN before \ ids : after[id] = before[id]
              /\ stats.skipped >= Cardinality(missing)
              /\ stats.inserted + stats.updated + stats.skipped = Len(data)
              /\ stored =>
                     /\ stats.skipped = Cardinality(missing)
                     /\ \A id \in ids : /\ id \in DOMAIN after
                                         /\ after[id].updated_at = now' ]_vars

\* a batch with a reference without sub-id and a reference that was upserted
C18_Witness ==
    /\ session.state = "committed"
    /\ session.entity_type = "OperatorSet"
    /\ \E j, k \in 1..Len(session.data) :
           /\ session.data[j].avs_id # None
           /\ session.data[j].operator_set_id = None
           /\ ~MissingSubId(session.data[k])
           /\ composite_id(session.data[k]) \in DOMAIN entities["OperatorSet"]
           /\ entities["OperatorSet"][composite_id(session.data[k])].updated_at = now
    /\ entity_stats["OperatorSet"].skipped = 1

----------------------------------------------------------------------------
(* Simple references: bare identifier or object *)

\* C19: for a simple entity field, a record whose value is the bare
\* identifier x and a record whose value is an object with id x both yield
\* the reference x, and x is upserted into the lookup table; null values
\* yield no reference.
C19_BothShapesExtracted ==
    (pc = "resolved" /\ transform_output # None) =>
        \A t \in Declared :
            LET out == entity_extractor(t, config, Page)
            IN  ~out.raised =>
                    /\ \A j \in 1..Len(Page) :
                           LET x == Page[j][ParentField(t)]
                           IN  x.kind \in {"obj", "bare"} =>
                                   /\ x.id \in out.ids
                                   /\ TheValue(x.id) \in DOMAIN entities[t]
                    /\ None \notin out.ids

----------------------------------------------------------------------------
(* Entity rows after their first write *)

\* the columns of an entity row apart from updated_at
FirstWritten(row) == [c \in DOMAIN row \ {"updated_at"} |-> row[c]]

\* C20: once an entity row exists in a lookup table, no later operation
\* deletes it or changes a column other than updated_at: its id, address,
\* created_at and any owner or parent reference stay as first written, for
\* every entity type.
C20_EntitiesOnlyTouched ==
    [][ \A t \in DOMAIN entities :
            \A id \in DOMAIN entities[t] :
                /\ id \in DOMAIN entities'[t]
                /\ FirstWritten(entities'[t][id]) = FirstWritten(entities[t][id]) ]_vars

----------------------------------------------------------------------------
(* Startup: the asset factory over the registry *)

\* a descriptor that declares AVS and has no extractor for it
DescriptorWithoutExtractor ==
    [OPERATOR_AVS_REGISTRATION_STATUS_UPDATED_CONFIG EXCEPT
        !.entity_extractors = {"Operator"}]

\* the module is being imported: no asset exists yet
InitStartup ==
    /\ config \in {OPERATOR_AVS_REGISTRATION_STATUS_UPDATED_CONFIG,
                   DescriptorWithoutExtractor}
    /\ sink = [log_index_column |-> TRUE]
    /\ source = <<>>
    /\ now = 0
    /\ events = EmptyTable
    /\ entities = [t \in EntityTypes |-> EmptyTable]
    /\ pc = "startup"
    /\ last_cursor = None
    /\ last_block = None
    /\ query = None
    /\ extract_output = None
    /\ transform_output = None
    /\ session = ClosedSession
    /\ entity_stats = EmptyTable
    /\ result = None
    /\ sessions = <<>>

\* generate_all_operator_event_assets: the factory reads table_name and
\* group_name of the descriptor and defines the four assets; it looks at
\* neither entity_dependencies nor entity_extractors
generate_all_operator_event_assets ==
    /\ pc = "startup"
    /\ pc' = "idle"
    /\ UNCHANGED <<config, sink, source, now, events, entities, last_cursor,
                   last_block, query, extract_output, transform_output,
                   session, entity_stats, result, sessions>>

NextStartup ==
    \/ generate_all_operator_event_assets
    \/ Next

SpecStartup == InitStartup /\ [][NextStartup]_vars

MissingExtractor ==
    \E t \in Declared : t \notin config.entity_extractors

\* C21: a descriptor that declares an entity dependency without an
\* extraction rule makes the engine fail before any cycle runs: no cycle
\* of it ever starts, and its entity step never meets the missing rule.
C21_MissingExtractorFatal ==
    MissingExtractor => pc = "startup"

----------------------------------------------------------------------------
(* One cycle and the rest of the source *)

\* the record is strictly after the cursor, in (block, log) order when the
\* cursor has a log index, in block order otherwise; without cursor and
\* block every record is
StrictlyAfter(r, cursor, block) ==
    IF cursor # None /\ TheValue(cursor)[2] # None
    THEN \/ r.blockNumber > TheValue(cursor)[1]
         \/ /\ r.blockNumber = TheValue(cursor)[1]
            /\ r.logIndex > TheValue(TheValue(cursor)[2])
    ELSE block = None \/ r.blockNumber > TheValue(block)

\* C22: a cycle repeats bounded fetches until a page comes back empty: when
\* a cycle ends with success, no record of the source (as it was at the
\* cycle's last fetch) is strictly after the new cursor.
C22_CycleDrains ==
    (pc = "done" /\ Report.status = "success") =>
        \A i \in 1..Len(source) :
            ~StrictlyAfter(source[i], NextCursor, NextBlock)

----------------------------------------------------------------------------
(* The first request of a backfill *)

Fetched == IF extract_output = None THEN <<>> ELSE TheValue(extract_output)

\* C23: when the target table is empty (no cursor, no stored block) the
\* request carries no position filter and selects from the first element
\* of the source; every request, with or without cursor, carries the page
\* size.
C23_FullBackfill ==
    query # None =>
        /\ TheValue(query).first = PageSize
        /\ (pc = "extracted" /\ DOMAIN events = {}) =>
               /\ TheValue(query).where =
                      [blockNumber_gte |-> None, or |-> None,
                       blockNumber_gt |-> None]
               /\ Len(Fetched) = Min(PageSize, Len(source))
               /\ \A j \in 1..Len(Fetched) :
                      /\ Fetched[j] \in Range(source)
                      /\ \A r \in Range(source) \ Range(Fetched) :
                             Fetched[j].blockNumber <= r.blockNumber

\* an empty table, a source longer than a page, and the first page fetched
C23_Witness ==
    /\ pc = "extracted"
    /\ DOMAIN events = {}
    /\ Len(source) > PageSize
    /\ Len(Fetched) = PageSize
    /\ Fetched[1] = source[1]

----------------------------------------------------------------------------
(* The cursor of the report *)

\* C24: at the end of a successful cycle the cursor is the maximum position
\* among the rows ingested, and the cursor value of the report
\* (last_block_processed) equals the cursor the next cycle reads from the
\* store, also when some rows of the page errored.
C24_CursorAdvanceAndReport ==
    (pc = "done" /\ Report.status = "success") =>
        /\ \A j \in 1..Len(Page) :
               Page[j].id \in DOMAIN events =>
                   Page[j].block_number
                       <= TheValue(get_last_processed_block(events))
        /\ Report.last_block_processed = get_last_processed_block(events)

----------------------------------------------------------------------------
(* The job run: every asset runs once its upstream assets have returned *)

CycleStep ==
    \/ transform_event
    \/ upsert_entities_enter
    \/ upsert_entities_iteration
    \/ upsert_entities_exit
    \/ load_event

SpecLive == Init /\ [][Next]_vars /\ WF_vars(CycleStep)

ReportFields ==
    {"status", "events_fetched", "events_inserted", "events_updated",
     "events_skipped", "events_errors", "entities_upserted",
     "last_block_processed"}

\* C25: a cycle in which event rows or entity types fail still returns a
\* report and does not raise; the report has status, the five event counts,
\* entities_upserted and the cursor value; only the fetch step raises.
C25_PartialFailuresNeverRaise ==
    /\ [][ /\ (pc' = "failed" /\ pc # "failed") => pc = "idle"
           /\ (pc' = "done" /\ pc # "done") =>
                  /\ result' # None
                  /\ DOMAIN TheValue(result') = ReportFields
                  /\ TheValue(result').status = "success" =>
                         TheValue(result').last_block_processed # None ]_vars
    /\ (pc = "extracted" ~> pc = "done")

\* a returned report of a cycle in which an event row and an entity type
\* failed
C25_Witness ==
    /\ pc = "done"
    /\ Report.status = "success"
    /\ Report.events_errors >= 1
    /\ \E t \in DOMAIN Report.entities_upserted :
           Report.entities_upserted[t].error

----------------------------------------------------------------------------
(* The event table as the rows it holds *)

\* a statement without conflict target on a table without the index
insert_values(heap, row) ==
    Append(heap, [id |-> row.id] @@ StoredRow(row))

\* the statement of load_events on the rows of the table: the arbiter is
\* the unique index on id (id is the primary key of BaseEvent); without a
\* row of that id the row is inserted, else the existing row is rewritten
\* where its updated_at differs
insert_on_conflict_do_update(heap, row) ==
    LET hits == {k \in 1..Len(heap) : heap[k].id = row.id}
    IN  IF hits = {}
        THEN Append(heap, [id |-> row.id] @@ StoredRow(row))
        ELSE [k \in 1..Len(heap) |->
                 IF k \in hits /\ heap[k].updated_at # row.updated_at
                 THEN [id |-> row.id] @@
                      [StoredRow(row) EXCEPT !.created_at = heap[k].created_at]
                 ELSE heap[k]]

\* the for loop of load_events: a row that raises is passed over, and a
\* statement the store rejects leaves the transaction aborted
RECURSIVE load_rows(_, _, _, _)
load_rows(tx, df, cfg, lookup) ==
    IF df = <<>>
    THEN tx
    ELSE LET row == Head(df)
             next == IF prepare_row_data_raises(row)
                     THEN tx
                     ELSE IF tx.aborted \/ ConstraintViolated(row, cfg, lookup)
                     THEN [tx EXCEPT !.aborted = TRUE]
                     ELSE [tx EXCEPT !.heap =
                              insert_on_conflict_do_update(@, row)]
         IN  load_rows(next, Tail(df), cfg, lookup)

\* pages as the endpoint can deliver them again and again: two ids, and a
\* page may hold an id twice
RowRecords ==
    { SourceRecord(i, v, OPERATOR_AVS_REGISTRATION_STATUS_UPDATED_CONFIG) :
          i \in 1..2,
          v \in { [operator |-> ObjA, blockTimestamp |-> "1700"],
                  [operator |-> Null, blockTimestamp |-> "1700"] } }

RowPages == UNION {[1..n -> RowRecords] : n \in 1..PageSize}

Touched(id) == [address |-> id, created_at |-> 0, updated_at |-> 0]

InitRows ==
    /\ config = OPERATOR_AVS_REGISTRATION_STATUS_UPDATED_CONFIG
    /\ sink = [log_index_column |-> TRUE]
    /\ source = <<>>
    /\ now = 0
    /\ events = <<>>
    /\ entities = [t \in EntityTypes |->
                      IF t = "Operator"
                      THEN ("0xA" :> Touched("0xA")) @@ ("0xB" :> Touched("0xB"))
                      ELSE "0xV" :> Touched("0xV")]
    /\ pc = "idle"
    /\ last_cursor = None
    /\ last_block = None
    /\ query = None
    /\ extract_output = None
    /\ transform_output = None
    /\ session = ClosedSession
    /\ entity_stats = EmptyTable
    /\ result = None
    /\ sessions = <<>>

\* with get_session() as session: load_events(session, df, table_name)
call_load_events ==
    /\ now < MaxCycles
    /\ now' = now + 1
    /\ \E page \in RowPages :
           LET df == transform_event_data(page, config, now + 1)
               tx == load_rows([heap |-> events, aborted |-> FALSE], df,
                               config, entities)
           IN  /\ transform_output' = Some(df)
               /\ events' = commit([table |-> tx.heap, aborted |-> tx.aborted],
                                   events)
    /\ UNCHANGED <<config, sink, source, entities, pc, last_cursor, last_block,
                   query, extract_output, session, entity_stats, result,
                   sessions>>

SpecRows == InitRows /\ [][call_load_events]_vars

\* C26: in every reachable state, after any sequence of loads (re-delivery
\* of the same records and ids that occur twice in one page included), the
\* event table holds at most one row per id.
C26_UniqueEventIdentity ==
    \A j, k \in 1..Len(events) : events[j].id = events[k].id => j = k

\* a page with the same id twice, re-delivered after that id was stored
C26_Witness ==
    /\ transform_output # None
    /\ Len(Page) >= 2
    /\ Page[1].id = Page[2].id
    /\ \E k \in 1..Len(events) :
           /\ events[k].id = Page[1].id
           /\ events[k].created_at < now
           /\ events[k].updated_at = now

----------------------------------------------------------------------------
(* Cycles of distinct event types on one database *)

TableNames == {d.table_name : d \in Descriptors}

\* a factory that gives every descriptor the same target table
TargetTable_shared(cfg) == "operator_registered_events"

\* config["table_name"]: the table get_last_cursor, get_last_processed_block
\* and load_events of the descriptor's assets are called with
TargetTable(cfg) == cfg.table_name

IdleCycle == [pc |-> "idle", df |-> <<>>, clock |-> 0]

\* events holds one table per descriptor, source one stream per descriptor,
\* sessions the position of each descriptor's cycle
InitTypes ==
    /\ config \in Descriptors
    /\ sink = [log_index_column |-> TRUE]
    /\ source \in [TableNames ->
                      {<<>>} \cup
                      {[i \in 1..MaxSource |->
                           [ id |-> i, blockNumber |-> BlockOf(i),
                             logIndex |-> LogOf(i), operator |-> o,
                             avs |-> ObjV, blockTimestamp |-> "1700" ]] :
                          o \in {ObjA, BareB}}]
    /\ now = 0
    /\ events = [n \in TableNames |-> EmptyTable]
    /\ entities = [t \in EntityTypes |-> EmptyTable]
    /\ pc = "idle"
    /\ last_cursor = None
    /\ last_block = None
    /\ query = None
    /\ extract_output = None
    /\ transform_output = None
    /\ session = ClosedSession
    /\ entity_stats = EmptyTable
    /\ result = None
    /\ sessions = [n \in TableNames |-> IdleCycle]

\* _extract_event and _transform_event of the descriptor
cycle_extract(d) ==
    /\ sessions[d.table_name].pc = "idle"
    /\ now < MaxCycles
    /\ now' = now + 1
    /\ LET lc == get_last_cursor(events[TargetTable(d)], sink)
           lb == ReadLastBlock(lc, events[TargetTable(d)])
       IN  \E data \in Pages(PlanQuery(lc, lb), source[d.table_name]) :
               sessions' = [sessions EXCEPT ![d.table_name] =
                               IF data = <<>>
                               THEN IdleCycle
                               ELSE [pc |-> "transformed",
                                     df |-> transform_event_data(data, d, now + 1),
                                     clock |-> now + 1]]
    /\ UNCHANGED <<config, sink, source, events, entities, pc, last_cursor,
                   last_block, query, extract_output, transform_output,
                   session, entity_stats, result>>

\* _upsert_entities of the descriptor
cycle_upsert_entities(d) ==
    /\ sessions[d.table_name].pc = "transformed"
    /\ entities' = upsert_entities(entities, sessions[d.table_name].df, d,
                                   sessions[d.table_name].clock)
    /\ sessions' = [sessions EXCEPT ![d.table_name].pc = "resolved"]
    /\ UNCHANGED <<config, sink, source, now, events, pc, last_cursor,
                   last_block, query, extract_output, transform_output,
                   session, entity_stats, result>>

\* _load_event of the descriptor
cycle_load(d) ==
    /\ sessions[d.table_name].pc = "resolved"
    /\ events' = [events EXCEPT ![TargetTable(d)] =
                     commit(load_events(@, sessions[d.table_name].df, d,
                                        entities), @)]
    /\ sessions' = [sessions EXCEPT ![d.table_name] = IdleCycle]
    /\ UNCHANGED <<config, sink, source, now, entities, pc, last_cursor,
                   last_block, query, extract_output, transform_output,
                   session, entity_stats, result>>

NextTypes ==
    \E d \in Descriptors :
        \/ cycle_extract(d)
        \/ cycle_upsert_entities(d)
        \/ cycle_load(d)

SpecTypes == InitTypes /\ [][NextTypes]_vars

\* C27: under any interleaving of cycles of distinct event types, a step of
\* the cycle of one type leaves the table of every other type as it was
\* (no row inserted, updated or deleted), and with it the cursor read from
\* that table.
C27_IndependentEventTypes ==
    [][ \A d \in Descriptors :
            sessions'[d.table_name] # sessions[d.table_name] =>
                \A n \in TableNames \ {d.table_name} :
                    /\ events'[n] = events[n]
                    /\ get_last_cursor(events'[n], sink)
                           = get_last_cursor(events[n], sink) ]_vars

\* a type has loaded rows while the cycle of another type, which has rows
\* of its own, is between two of its steps
C27_Witness ==
    \E a, b \in TableNames :
        /\ a # b
        /\ DOMAIN events[a] # {}
        /\ DOMAIN events[b] # {}
        /\ sessions[a].pc = "idle"
        /\ sessions[b].pc = "resolved"
        /\ \E i \in DOMAIN events[a] :
               events[a][i].created_at > sessions[b].clock

----------------------------------------------------------------------------
(* The order of the steps of a cycle *)

\* IDLE, FETCHING (to "extracted" or "failed"), TRANSFORMING (to
\* "transformed"), RESOLVING_ENTITIES ("resolving" to "resolved"), LOADING
\* (to "done"), and back to IDLE at the next invocation
CycleOrder ==
    { <<"idle", "extracted">>, <<"idle", "failed">>,
      <<"extracted", "transformed">>,
      <<"transformed", "resolving">>, <<"transformed", "resolved">>,
      <<"resolving", "resolved">>,
      <<"resolved", "done">>,
      <<"done", "idle">>, <<"failed", "idle">> }

\* C28: every cycle goes fetch, then on an empty page to the no_new_data
\* end without transforming, resolving or loading anything, else
\* transform, resolve entities, load and the success end, in that order, or
\* to the failed end on a fetch error; no step starts before the step
\* before it has returned its complete output, no step runs twice, and
\* every cycle reaches one of the three ends.
C28_CycleStateMachine ==
    /\ [][ pc' # pc =>
             /\ <<pc, pc'>> \in CycleOrder
             /\ pc' = "transformed" =>
                    (transform_output' = None <=> extract_output = None)
             /\ <<pc, pc'>> = <<"transformed", "resolved">> =>
                    transform_output = None /\ session' = ClosedSession
             /\ <<pc, pc'>> = <<"resolving", "resolved">> =>
                    /\ session.done = Len(config.entity_dependencies)
                    /\ session'.state = "committed"
             /\ pc' = "done" =>
                    /\ TheValue(result').status =
                           IF extract_output = None
                           THEN "no_new_data" ELSE "success"
                    /\ extract_output = None => events' = events ]_vars
    /\ (pc # "idle" ~> pc \in {"done", "failed"})

\* a second cycle that went through every step to the success end
C28_Witness ==
    /\ pc = "done"
    /\ now >= 2
    /\ Report.status = "success"
    /\ session.state = "committed"
    /\ session.done = Len(config.entity_dependencies)

----------------------------------------------------------------------------
(* get_session: the scope of one step's transaction *)

\* how the body of a with block can end: it returns, it raises an Exception,
\* or it is interrupted by something that is not an Exception
\* (KeyboardInterrupt, the interrupt of a terminated run)
BodyExits == {"returned", "Exception", "BaseException"}

\* no with block is open
NoSession ==
    [ state |-> "none", aborted |-> FALSE, table |-> EmptyTable,
      snapshot |-> EmptyTable, statements |-> 0, commits |-> 0,
      rollbacks |-> 0, raising |-> FALSE, closed |-> FALSE ]

InitSession ==
    /\ config = OPERATOR_REGISTERED_CONFIG
    /\ sink = [log_index_column |-> TRUE]
    /\ source = <<>>
    /\ now = 0
    /\ events = EmptyTable
    /\ entities = [t \in EntityTypes |-> EmptyTable]
    /\ pc = "idle"
    /\ last_cursor = None
    /\ last_block = None
    /\ query = None
    /\ extract_output = None
    /\ transform_output = None
    /\ session = NoSession
    /\ entity_stats = EmptyTable
    /\ result = None
    /\ sessions = <<>>

\* a context manager with the commit in the finally clause
AfterBody_always_commit(exit) == "commit"

\* try: yield session; session.commit() / except Exception: / finally:
\* the clause that runs when the body has ended
AfterBody(exit) ==
    CASE exit = "returned" -> "commit"
      [] exit = "Exception" -> "except"
      [] OTHER -> "finally"

\* session = self._session_factory(); yield session
session_factory ==
    /\ pc = "idle"
    /\ now < MaxCycles
    /\ now' = now + 1
    /\ pc' = "body"
    /\ session' = [NoSession EXCEPT !.state = "open", !.table = events,
                                    !.snapshot = events]
    /\ result' = None
    /\ UNCHANGED <<config, sink, source, events, entities, last_cursor,
                   last_block, query, extract_output, transform_output,
                   entity_stats, sessions>>

\* one statement of the body: it writes a row, or it fails (the body catches
\* the error) and leaves the transaction aborted; in an aborted transaction
\* every statement fails
body_statement ==
    /\ pc = "body"
    /\ session.statements < MaxBatch
    /\ \E id \in 1..MaxBatch, fails \in BOOLEAN :
           session' =
               IF fails \/ session.aborted
               THEN [session EXCEPT !.aborted = TRUE, !.statements = @ + 1]
               ELSE [session EXCEPT !.table = (id :> now) @@ @,
                                    !.statements = @ + 1]
    /\ UNCHANGED <<config, sink, source, now, events, entities, pc,
                   last_cursor, last_block, query, extract_output,
                   transform_output, entity_stats, result, sessions>>

\* the body ends
body_exits ==
    /\ pc = "body"
    /\ \E exit \in BodyExits :
           /\ result' = Some(exit)
           /\ pc' = AfterBody(exit)
           /\ session' = [session EXCEPT !.raising = (exit # "returned")]
    /\ UNCHANGED <<config, sink, source, now, events, entities, last_cursor,
                   last_block, query, extract_output, transform_output,
                   entity_stats, sessions>>

\* session.commit(): the transaction ends as commit says, or the call raises
\* (connection lost, a check deferred to commit time) and nothing is applied
get_session_commit ==
    /\ pc = "commit"
    /\ \E raises \in BOOLEAN :
           IF raises
           THEN /\ events' = events
                /\ pc' = "except"
                /\ session' = [session EXCEPT !.commits = @ + 1,
                                              !.raising = TRUE]
           ELSE /\ events' = commit([table |-> session.table,
                                     aborted |-> session.aborted], events)
                /\ pc' = "finally"
                /\ session' = [session EXCEPT !.commits = @ + 1,
                                              !.state = "committed"]
    /\ UNCHANGED <<config, sink, source, now, entities, last_cursor,
                   last_block, query, extract_output, transform_output,
                   entity_stats, result, sessions>>

\* except Exception: session.rollback(); raise
get_session_rollback ==
    /\ pc = "except"
    /\ events' = rollback([table |-> session.table,
                           aborted |-> session.aborted], events)
    /\ pc' = "finally"
    /\ session' = [session EXCEPT !.rollbacks = @ + 1,
                                  !.state = "rolled_back", !.raising = TRUE]
    /\ UNCHANGED <<config, sink, source, now, entities, last_cursor,
                   last_block, query, extract_output, transform_output,
                   entity_stats, result, sessions>>

\* finally: session.close(): a transaction still open is dropped with the
\* connection's reset; the with block returns or the exception goes on
get_session_close ==
    /\ pc = "finally"
    /\ events' = IF session.state = "open"
                 THEN rollback([table |-> session.table,
                                aborted |-> session.aborted], events)
                 ELSE events
    /\ session' = [session EXCEPT !.closed = TRUE]
    /\ pc' = IF session.raising THEN "raised" ELSE "returned"
    /\ UNCHANGED <<config, sink, source, now, entities, last_cursor,
                   last_block, query, extract_output, transform_output,
                   entity_stats, result, sessions>>

\* the next step of the job, or the next run after a failed one
next_step ==
    /\ pc \in {"returned", "raised"}
    /\ now < MaxCycles
    /\ pc' = "idle"
    /\ UNCHANGED <<config, sink, source, now, events, entities, last_cursor,
                   last_block, query, extract_output, transform_output,
                   session, entity_stats, result, sessions>>

NextSession ==
    \/ session_factory
    \/ body_statement
    \/ body_exits
    \/ get_session_commit
    \/ get_session_rollback
    \/ get_session_close
    \/ next_step

SpecSession == InitSession /\ [][NextSession]_vars

\* C29: commit is called on a session exactly when the body of the with
\* block returned; when the body or the commit raised the transaction is
\* rolled back and the with block raises; the session is closed on every
\* way out; and after a with block that raised the table is what it was
\* when the session began.
C29_TransactionScope ==
    /\ session.commits > 0 => result = Some("returned")
    /\ pc \in {"returned", "raised"} => session.closed
    /\ pc = "returned" =>
           /\ result = Some("returned")
           /\ session.commits = 1
           /\ session.rollbacks = 0
           /\ events = commit([table |-> session.table,
                               aborted |-> session.aborted],
                              session.snapshot)
    /\ pc = "raised" =>
           /\ events = session.snapshot
           /\ session.commits = (IF result = Some("returned") THEN 1 ELSE 0)
           /\ result # Some("BaseException") => session.rollbacks = 1
    /\ pc \in {"finally", "returned"} /\ result = Some("returned")
       /\ ~session.raising => session.state = "committed"

\* a body that wrote a row and then raised, after an earlier with block
\* committed
C29_Witness ==
    /\ pc = "raised"
    /\ result = Some("Exception")
    /\ ~session.aborted
    /\ session.table # session.snapshot
    /\ session.snapshot # EmptyTable

----------------------------------------------------------------------------
(* Flattening of the nested fields of a page *)

\* the value of column parent_id the flattening owes a record: the
\* sub-value of a structured object (null when the object has none), null
\* for anything else
Projection(x) == IF x.kind \in {"obj", "noid"} THEN x.id ELSE None

\* C30: once the transform step has returned, every row of the transformed
\* page has, for each declared nested field (operator, avs), the column
\* parent_id holding the sub-value when the parent is a structured object
\* and null when it is a bare value or null; the parent column is kept as
\* fetched; and every record of the page, malformed or not, has its row,
\* in order, with its other columns transformed.
C30_TolerantFlattening ==
    (pc \in {"transformed", "resolving", "resolved", "done"}
     /\ extract_output # None) =>
        /\ transform_output # None
        /\ LET data == TheValue(extract_output) IN
           /\ Len(Page) = Len(data)
           /\ \A j \in 1..Len(data) :
                  /\ Page[j].operator_id = Projection(data[j].operator)
                  /\ Page[j].avs_id = Projection(data[j].avs)
                  /\ Page[j].operator = data[j].operator
                  /\ Page[j].avs = data[j].avs
                  /\ Page[j].id = data[j].id
                  /\ Page[j].block_number = data[j].blockNumber
                  /\ Page[j].raw_data = data[j]
                  /\ Page[j].created_at = now

\* a page with a bare value or null next to a structured object
C30_Witness ==
    /\ pc = "transformed"
    /\ transform_output # None
    /\ \E j, k \in 1..Len(Page) :
           /\ Page[j].operator.kind \in {"bare", "null"}
           /\ Page[j].operator_id = None
           /\ Page[k].operator.kind = "obj"
           /\ Page[k].operator_id # None

----------------------------------------------------------------------------
(* The audit payload and the column map *)

\* "fields" of a descriptor: what is requested of every record
fields(cfg) ==
    {"id", "blockNumber", "blockTimestamp", "operator", "avs"}
        \cup (IF cfg.has_logIndex THEN {"logIndex"} ELSE {})

\* "column_mapping" of the descriptors, for the requested fields
column_mapping ==
    [ logIndex |-> "log_index",
      blockNumber |-> "block_number",
      blockTimestamp |-> "block_timestamp" ]

Unmapped == fields(config) \ DOMAIN column_mapping

\* the columns of the stored row of an id, the primary key among them
PersistedRow(i) == [id |-> i] @@ events[i]

\* raw_data of every row of the transformed page is the fetched record of
\* that position, every requested field in it
RawDataVerbatim ==
    (pc \in {"transformed", "resolving", "resolved", "done"}
     /\ extract_output # None) =>
        /\ transform_output # None
        /\ LET data == TheValue(extract_output) IN
           /\ Len(Page) = Len(data)
           /\ \A j \in 1..Len(data) :
                  /\ Page[j].raw_data = data[j]
                  /\ fields(config) \subseteq DOMAIN Page[j].raw_data

\* C31 as stated: raw_data is the fetched record unchanged, and a source
\* field absent from the column map is in no persisted column other than
\* raw_data.
C31_AuditPayload_original ==
    /\ RawDataVerbatim
    /\ \A i \in DOMAIN events :
           \A f \in Unmapped : f \notin DOMAIN PersistedRow(i) \ {"raw_data"}

\* C31, amended: raw_data of every row of the transformed page is the
\* fetched record of that position unchanged, with every source field; the
\* stored raw_data is a record the source published; and a source field
\* absent from the column map is persisted outside raw_data only in a
\* column of its own name, holding the value it has in raw_data (the
\* identity id), never under another name.
C31_AuditPayload ==
    /\ RawDataVerbatim
    /\ \A i \in DOMAIN events :
           /\ \E k \in 1..Len(source) : source[k] = events[i].raw_data
           /\ fields(config) \subseteq DOMAIN events[i].raw_data
           /\ \A f \in Unmapped :
                  f \in DOMAIN PersistedRow(i) =>
                      PersistedRow(i)[f] = events[i].raw_data[f]
           /\ \A f \in fields(config) \cap DOMAIN column_mapping :
                  column_mapping[f] \in DOMAIN PersistedRow(i)

\* a stored row written in this cycle from a record with a nested operator:
\* the parent is in raw_data and in no column, the id is in its column
C31_Witness ==
    /\ pc = "done"
    /\ \E i \in DOMAIN events :
           /\ events[i].created_at = now
           /\ events[i].raw_data.operator.kind = "obj"
           /\ events[i].raw_data.id = i
           /\ "operator" \notin DOMAIN PersistedRow(i)

----------------------------------------------------------------------------
(* The composite keys of a page *)

\* the keys upsert_operator_sets sends to the store for a batch: id, avs_id
\* and operator_set_id of every entry that is not skipped
KeysOf(operator_set_data) ==
    { [ id |-> composite_id(operator_set_data[j]),
        avs_id |-> TheValue(operator_set_data[j].avs_id),
        operator_set_id |-> TheValue(operator_set_data[j].operator_set_id) ] :
      j \in {k \in 1..Len(operator_set_data) :
                ~operator_set_entry_invalid(operator_set_data[k])} }

\* extraction, then key derivation, for a column of operator-set values
CompositeKeys(column) == KeysOf(operator_set_extractor(column).entries)

----------------------------------------------------------------------------
(* Rows that errored and the next cursor *)

\* the request the next cycle will make, planned from the store as it is
NextQuery == PlanQuery(NextCursor, NextBlock)

\* C33: when a cycle has loaded a page (with records that carry their log
\* index, into a table that stores it), every row of the page that is not
\* in the table (it errored in load_events) is still selected by the
\* request the next cycle plans from the cursor it reads: a row that
\* errored while later rows were stored is not left behind the cursor.
C33_NoRowLeftBehind ==
    (/\ pc = "done"
     /\ Report.status = "success"
     /\ config.has_logIndex
     /\ sink.log_index_column) =>
        \A j \in 1..Len(Page) :
            Page[j].id \notin DOMAIN events =>
                Matches(NextQuery.where, Page[j].raw_data)

----------------------------------------------------------------------------
(* The rows of one block at the end of a page *)

\* a block that holds every event of the stream: the i-th record sits at
\* log index i - 1 of block 1
CrowdedRecord(i, v, cfg) ==
    [SourceRecord(i, v, cfg) EXCEPT !.blockNumber = 1, !.logIndex = i - 1]

\* the subgraph has indexed one block with up to MaxSource well-formed
\* events of a descriptor that fetches and stores the log index
InitCrowded ==
    /\ config = OPERATOR_AVS_REGISTRATION_STATUS_UPDATED_CONFIG
    /\ sink = [log_index_column |-> TRUE]
    /\ \E n \in 1..MaxSource :
           \E operators \in [1..n -> {ObjA, ObjB}] :
               source = [i \in 1..n |->
                            CrowdedRecord(i, [operator |-> operators[i],
                                              blockTimestamp |-> "1700"],
                                          config)]
    /\ now = 0
    /\ events = EmptyTable
    /\ entities = [t \in EntityTypes |-> EmptyTable]
    /\ pc = "idle"
    /\ last_cursor = None
    /\ last_block = None
    /\ query = None
    /\ extract_output = None
    /\ transform_output = None
    /\ session = ClosedSession
    /\ entity_stats = EmptyTable
    /\ result = None
    /\ sessions = <<>>

\* the cycles of the schedule over that block
NextCrowded ==
    \/ extract_event
    \/ extract_event_raises
    \/ transform_event
    \/ upsert_entities_enter
    \/ upsert_entities_iteration
    \/ upsert_entities_exit
    \/ load_event
    \/ next_invocation

SpecCrowded == InitCrowded /\ [][NextCrowded]_vars

\* C34: when a cycle has loaded a page, a record that the cycle's request
\* selected, that the page omitted and that shares its block with a row of
\* the page of greater log index is still selected by the request the next
\* cycle plans: no row of a block is skipped because the page ended inside
\* the block.
C34_NoSameBlockSkip ==
    (pc = "done" /\ Report.status = "success") =>
        \A k \in 1..Len(source), j \in 1..Len(Page) :
            (/\ Matches(TheValue(query).where, source[k])
             /\ \A i \in 1..Len(Page) : Page[i].id # source[k].id
             /\ source[k].blockNumber = Page[j].block_number
             /\ source[k].logIndex < Page[j].raw_data.logIndex)
            => Matches(NextQuery.where, source[k])

----------------------------------------------------------------------------
(* The counts of a load *)

\* C35: every row of the page a cycle loads is counted in exactly one of
\* inserted, updated, skipped, errors: in the success report the four
\* counts add up to events_fetched, which is the number of rows of the
\* page.
C35_OutcomeCountsConserved ==
    (pc = "done" /\ Report.status = "success") =>
        /\ Report.events_fetched = Len(Page)
        /\ Report.events_fetched =
               Report.events_inserted + Report.events_updated
                   + Report.events_skipped + Report.events_errors

\* a page of which one row was inserted and another errored
C35_Witness ==
    /\ pc = "done"
    /\ Report.status = "success"
    /\ Report.events_fetched >= 2
    /\ Report.events_errors >= 1
    /\ Report.events_inserted >= 1

----------------------------------------------------------------------------
(* The answer of the endpoint as _extract_event reads it *)

\* the bodies the endpoint can send with an ok status: {"data": {name:
\* [...]}} with the first records that match, or an error payload
\* {"errors": [...]} that has no "data" key.  sessions holds the body of
\* the cycle's answer in this specification.
Responses(q, src) ==
    {[data |-> Some(page), errors |-> FALSE] : page \in Pages(q, src)}
        \cup {[data |-> None, errors |-> TRUE]}

\* response.get("data", {}).get(config["graphql_name"], [])
EventList(response) ==
    IF response.data = None THEN <<>> ELSE TheValue(response.data)

\* _extract_event, subgraph_client.query returning response.json()
extract_event_response ==
    /\ pc = "idle"
    /\ now < MaxCycles
    /\ now' = now + 1
    /\ last_cursor' = get_last_cursor(events, sink)
    /\ last_block' = ReadLastBlock(last_cursor', events)
    /\ query' = Some(PlanQuery(last_cursor', last_block'))
    /\ \E response \in Responses(TheValue(query'), source) :
           /\ sessions' = <<response>>
           /\ extract_output' = ExtractOutput(EventList(response))
    /\ pc' = "extracted"
    /\ UNCHANGED <<config, sink, source, events, entities, transform_output,
                   session, entity_stats, result>>

NextFetch ==
    \/ Publish
    \/ extract_event_response
    \/ extract_event_raises
    \/ transform_event
    \/ upsert_entities_enter
    \/ upsert_entities_iteration
    \/ upsert_entities_exit
    \/ load_event
    \/ next_invocation

SpecFetch == Init /\ [][NextFetch]_vars

\* C36: a cycle ends with status no_new_data only when the body of the
\* answer held the event list and the list was empty; an error payload
\* without the list is not reported as no new data.
C36_ErrorPayloadNotNoNewData ==
    (pc = "done" /\ Report.status = "no_new_data") =>
        /\ ~sessions[1].errors
        /\ sessions[1].data = Some(<<>>)

----------------------------------------------------------------------------
(* Two invocations of one event type that overlap *)

\* the two job runs
Loaders == {1, 2}

\* a run that has fetched the page and not yet transformed it
FetchedLoader ==
    [ state |-> "fetched", clock |-> 0, df |-> <<>>, rest |-> <<>>,
      writes |-> EmptyTable, aborted |-> FALSE ]

\* both runs read the cursor of the empty table and were answered with the
\* same page: one or two records, well-formed, without operator (refused
\* by the store) or with a timestamp that is not a number (refused by
\* _prepare_row_data); the entities the page names are in the lookup tables
InitOverlap ==
    /\ config = OPERATOR_AVS_REGISTRATION_STATUS_UPDATED_CONFIG
    /\ sink = [log_index_column |-> TRUE]
    /\ \E n \in 1..PageSize :
           \E vs \in [1..n -> { [operator |-> ObjA, blockTimestamp |-> "1700"],
                                [operator |-> Null, blockTimestamp |-> "1700"],
                                [operator |-> ObjA, blockTimestamp |-> "n/a"] }] :
               source = [i \in 1..n |-> SourceRecord(i, vs[i], config)]
    /\ now = 0
    /\ events = EmptyTable
    /\ entities = [t \in EntityTypes |->
                      IF t = "Operator"
                      THEN "0xA" :> Touched("0xA")
                      ELSE "0xV" :> Touched("0xV")]
    /\ pc = "idle"
    /\ last_cursor = None
    /\ last_block = None
    /\ query = Some(PlanQuery(None, None))
    /\ extract_output = Some(source)
    /\ transform_output = None
    /\ session = ClosedSession
    /\ entity_stats = EmptyTable
    /\ result = None
    /\ sessions = [c \in Loaders |-> FetchedLoader]

\* what a statement of c sees: its own writes over the committed table
LoaderView(c) == sessions[c].writes @@ events

\* a store without row locks
RowLocked_never(c, row) == FALSE

\* the INSERT .. ON CONFLICT of c for the row waits while the open
\* transaction of the other run holds a write of that id; a statement that
\* fails before it reaches the index does not wait
RowLocked(c, row) ==
    /\ ~sessions[c].aborted
    /\ ~prepare_row_data_raises(row)
    /\ ~ConstraintViolated(row, config, entities)
    /\ \E d \in Loaders \ {c} :
           /\ sessions[d].state = "open"
           /\ row.id \in DOMAIN sessions[d].writes

\* _transform_event of a run, and the session of its _load_event opened
overlap_transform ==
    \E c \in Loaders :
        /\ sessions[c].state = "fetched"
        /\ now' = now + 1
        /\ LET df == transform_event_data(TheValue(extract_output), config,
                                          now + 1)
           IN  sessions' = [sessions EXCEPT ![c] =
                   [FetchedLoader EXCEPT !.state = "open", !.clock = now + 1,
                                         !.df = df, !.rest = df]]
        /\ UNCHANGED <<config, sink, source, events, entities, pc,
                       last_cursor, last_block, query, extract_output,
                       transform_output, session, entity_stats, result>>

\* one iteration of the for loop of load_events in a run
overlap_execute ==
    \E c \in Loaders :
        /\ sessions[c].state = "open"
        /\ sessions[c].rest # <<>>
        /\ ~RowLocked(c, Head(sessions[c].rest))
        /\ LET w == sessions[c]
               row == Head(w.rest)
               tx == load_one([table |-> LoaderView(c), aborted |-> w.aborted,
                               inserted |-> 0, updated |-> 0, skipped |-> 0,
                               errors |-> 0], row, config, entities)
           IN  sessions' = [sessions EXCEPT ![c] =
                   [w EXCEPT !.rest = Tail(w.rest),
                             !.aborted = tx.aborted,
                             !.writes = IF tx.table = LoaderView(c)
                                        THEN @
                                        ELSE (row.id :> tx.table[row.id]) @@ @]]
        /\ UNCHANGED <<config, sink, source, now, events, entities, pc,
                       last_cursor, last_block, query, extract_output,
                       transform_output, session, entity_stats, result>>

\* a run leaves the with block of _load_event: COMMIT (ROLLBACK for a
\* failed transaction), the row locks are released
overlap_commit ==
    \E c \in Loaders :
        /\ sessions[c].state = "open"
        /\ sessions[c].rest = <<>>
        /\ events' = commit([table |-> LoaderView(c),
                             aborted |-> sessions[c].aborted], events)
        /\ sessions' = [sessions EXCEPT ![c].state = "closed",
                                        ![c].writes = EmptyTable]
        /\ UNCHANGED <<config, sink, source, now, entities, pc, last_cursor,
                       last_block, query, extract_output, transform_output,
                       session, entity_stats, result>>

NextOverlap ==
    \/ overlap_transform
    \/ overlap_execute
    \/ overlap_commit

SpecOverlap == InitOverlap /\ [][NextOverlap]_vars

\* the table after the load of c, then the load of d, one after the other
OneAfterTheOther(c, d) ==
    LET first == load_events(EmptyTable, sessions[c].df, config, entities)
        after == commit(first, EmptyTable)
        second == load_events(after, sessions[d].df, config, entities)
    IN  commit(second, after)

----------------------------------------------------------------------------
(* The key of an operator set and its two components *)

\* a source value whose id names set 0 of 0xV while its operatorSetId is 1:
\* the extractor reads avs_id off the id and operator_set_id off the field,
\* and nothing compares the two
SetSkew == [kind |-> "obj", id |-> Some(<<"0xV", 0>>), operatorSetId |-> Some(1)]

\* upsert_operator_sets on what the OperatorSet extractor made of a column
\* the endpoint answered with, the id of a value not being looked into
call_upsert_operator_sets_of_source ==
    /\ now < MaxCycles
    /\ \E column \in Batches(OperatorSetShapes \cup {SetSkew}) :
           LET operator_set_data == operator_set_extractor(column).entries
           IN  Called("OperatorSet", operator_set_data,
                      upsert_operator_sets(entities["OperatorSet"],
                                           operator_set_data,
                                           entities["AVS"], now + 1))

NextKeys ==
    \/ call_upsert_simple
    \/ call_upsert_operator_sets_of_source
    \/ call_upsert_eigen_pods

SpecKeys == InitManager /\ [][NextKeys]_vars

\* C38: every row of operator_sets has an avs_id, and its id is its avs_id
\* and its operator_set_id joined by "-".
C38_OperatorSetKeyConsistent ==
    \A id \in DOMAIN entities["OperatorSet"] :
        id = << entities["OperatorSet"][id].avs_id,
                entities["OperatorSet"][id].operator_set_id >>

----------------------------------------------------------------------------
(* The counts of _upsert_simple and the ids of a batch that the store took *)

\* the ids the extractor of a type hands to _upsert_simple in this cycle
BatchOf(entity_type) ==
    entity_extractor(entity_type, config, TheValue(transform_output)).ids

\* C39: when the entity step leaves its session, the counts of every simple
\* type that was upserted add up to the number of distinct ids of its batch,
\* and every id of the batch other than one the store rejects is a row of
\* the committed lookup table.
C39_UpsertCountsAndIsolation ==
    [][ (pc = "resolving" /\ pc' = "resolved") =>
            \A entity_type \in DOMAIN entity_stats \cap SimpleEntityTypes :
                ~entity_stats[entity_type].error =>
                    /\ entity_stats[entity_type].inserted
                         + entity_stats[entity_type].updated
                         + entity_stats[entity_type].skipped
                           = Cardinality(BatchOf(entity_type))
                    /\ \A entity_id \in BatchOf(entity_type) \ {None} :
                           TheValue(entity_id) \in DOMAIN entities'[entity_type]
      ]_vars

====
